---- MODULE Spec2Model ----
(***************************************************************************)
(* PlanFirst CLI: the Implementation Verifier (src/src/core/verifier.ts).  *)
(*                                                                         *)
(* Verifier.verify is modelled as the asynchronous procedure it is: one    *)
(* action per stretch of code between two awaits, with the file system as  *)
(* shared state that other processes may change while a run is suspended.  *)
(* Text is a sequence of one-character strings, so that keyword extraction *)
(* and substring search are computed as the code computes them.            *)
(***************************************************************************)
EXTENDS Integers, Sequences, FiniteSets, TLC

\* The value of an absent optional field or option (JavaScript undefined).
NoValue == "undefined"

Min(a, b) == IF a < b THEN a ELSE b
Max(a, b) == IF a > b THEN a ELSE b

----------------------------------------------------------------------------
\* Text

LowerLetters ==
  << "a", "b", "c", "d", "e", "f", "g", "h", "i", "j", "k", "l", "m",
     "n", "o", "p", "q", "r", "s", "t", "u", "v", "w", "x", "y", "z" >>
UpperLetters ==
  << "A", "B", "C", "D", "E", "F", "G", "H", "I", "J", "K", "L", "M",
     "N", "O", "P", "Q", "R", "S", "T", "U", "V", "W", "X", "Y", "Z" >>
Digits == {"0", "1", "2", "3", "4", "5", "6", "7", "8", "9"}
\* The characters of the regular-expression class \s that the texts use.
Whitespace == {" ", "\t", "\n"}

Range(s) == {s[i] : i \in DOMAIN s}

\* String.prototype.toLowerCase, character by character.
toLowerCaseChar(c) ==
  IF \E i \in DOMAIN UpperLetters : UpperLetters[i] = c
  THEN LowerLetters[CHOOSE i \in DOMAIN UpperLetters : UpperLetters[i] = c]
  ELSE c
toLowerCase(text) == [i \in 1..Len(text) |-> toLowerCaseChar(text[i])]

\* text.replace(/[^a-z0-9\s]/g, ' ')
replaceNonAlnum(text) ==
  [i \in 1..Len(text) |->
     IF text[i] \in Range(LowerLetters) \cup Digits \cup Whitespace
     THEN text[i] ELSE " "]

\* text.split(/\s+/): every run of whitespace is one separator, and a
\* separator at either end leaves an empty string there.
RECURSIVE splitWhitespace(_, _, _)
splitWhitespace(text, i, cur) ==
  IF i > Len(text) THEN <<cur>>
  ELSE IF text[i] \in Whitespace
       THEN IF i > 1 /\ text[i - 1] \in Whitespace
            THEN splitWhitespace(text, i + 1, cur)
            ELSE <<cur>> \o splitWhitespace(text, i + 1, <<>>)
       ELSE splitWhitespace(text, i + 1, Append(cur, text[i]))

\* String.prototype.includes
includes(text, word) ==
  \E i \in 0..(Len(text) - Len(word)) :
     SubSeq(text, i + 1, i + Len(word)) = word

commonWords ==
  { <<"t", "h", "e">>,
    <<"a">>,
    <<"a", "n">>,
    <<"a", "n", "d">>,
    <<"o", "r">>,
    <<"b", "u", "t">>,
    <<"i", "n">>,
    <<"o", "n">>,
    <<"a", "t">>,
    <<"t", "o">>,
    <<"f", "o", "r">>,
    <<"o", "f">>,
    <<"w", "i", "t", "h">>,
    <<"b", "y">>,
    <<"f", "r", "o", "m">>,
    <<"a", "s">>,
    <<"i", "s">>,
    <<"w", "a", "s">>,
    <<"a", "r", "e">>,
    <<"b", "e">>,
    <<"b", "e", "e", "n">>,
    <<"h", "a", "s">>,
    <<"h", "a", "v", "e">>,
    <<"h", "a", "d">>,
    <<"d", "o">>,
    <<"d", "o", "e", "s">>,
    <<"d", "i", "d">>,
    <<"w", "i", "l", "l">>,
    <<"w", "o", "u", "l", "d">>,
    <<"s", "h", "o", "u", "l", "d">>,
    <<"c", "o", "u", "l", "d">>,
    <<"t", "h", "i", "s">>,
    <<"t", "h", "a", "t">>,
    <<"t", "h", "e", "s", "e">>,
    <<"t", "h", "o", "s", "e">>,
    <<"f", "i", "l", "e">>,
    <<"f", "u", "n", "c", "t", "i", "o", "n">>,
    <<"c", "l", "a", "s", "s">> }

\* Longest keyword list extractKeywords returns.
MaxKeywords == 10

\* extractKeywords without its slice(0, 10).
extractKeywords_mutant(text) ==
  LET words == splitWhitespace(replaceNonAlnum(toLowerCase(text)), 1, <<>>)
  IN  SelectSeq(words, LAMBDA w : Len(w) > 3 /\ w \notin commonWords)

extractKeywords(text) ==
  LET words == splitWhitespace(replaceNonAlnum(toLowerCase(text)), 1, <<>>)
      kept  == SelectSeq(words, LAMBDA w : Len(w) > 3 /\ w \notin commonWords)
  IN  SubSeq(kept, 1, Min(Len(kept), MaxKeywords))

----------------------------------------------------------------------------
\* Match percentage

\* A match percentage is held in units of 1/Scale of a percent.  Scale is a
\* multiple of every divisor the score can meet (1..10 keywords, and change
\* lists of up to 10 entries), so every quotient below is exact.
Scale == 8 * 9 * 5 * 7
Pct(n) == n * Scale

BaseScore     == 50
KeywordWeight == 30
ChangeWeight  == 20

\* The number of changes whose code snippet has a keyword in the content.
\* The optional field code is <<>> when absent and <<text>> when present; an
\* absent and an empty snippet are both falsy.
\* The keywords are lower-cased by extractKeywords, the content is not.
changesFoundIn(content, changes) ==
  Cardinality({ i \in DOMAIN changes :
     /\ changes[i].code # <<>>
     /\ changes[i].code[1] # <<>>
     /\ \E k \in Range(extractKeywords(changes[i].code[1])) :
           includes(content, k) })

\* The score without the base for the file's existence.
calculateMatchPercentage_mutant(content, task) ==
  LET keywords      == extractKeywords(task.description)
      keywordsFound == SelectSeq(keywords,
                         LAMBDA k : includes(toLowerCase(content), toLowerCase(k)))
      score1 == (Len(keywordsFound) * Pct(KeywordWeight))
                      \div Max(Len(keywords), 1)
      score2 == IF Len(task.changes) > 0
                THEN score1 + (changesFoundIn(content, task.changes)
                                  * Pct(ChangeWeight)) \div Len(task.changes)
                ELSE score1
  IN  Min(Pct(100), Max(0, score2))

calculateMatchPercentage(content, task) ==
  LET keywords      == extractKeywords(task.description)
      keywordsFound == SelectSeq(keywords,
                         LAMBDA k : includes(toLowerCase(content), toLowerCase(k)))
      score1 == Pct(BaseScore)
                + (Len(keywordsFound) * Pct(KeywordWeight))
                      \div Max(Len(keywords), 1)
      score2 == IF Len(task.changes) > 0
                THEN score1 + (changesFoundIn(content, task.changes)
                                  * Pct(ChangeWeight)) \div Len(task.changes)
                ELSE score1
  IN  Min(Pct(100), Max(0, score2))

----------------------------------------------------------------------------
\* Verification of one task

TaskTypes == {"create", "modify", "delete", "rename", "move"}

\* Status thresholds of verifyTask, in percent.
CreatePartialAt == 50
\* The create branch passing from the modify branch's threshold on.
CreatePassAt_mutant == CreatePartialAt + 20
CreatePassAt    == 80
ModifyPartialAt == 40
\* The modify branch passing from the create branch's threshold on.
ModifyPassAt_mutant == CreatePassAt
ModifyPassAt    == 70

\* Math.round of a match percentage.
round(m) == (2 * m + Scale) \div (2 * Scale)

\* An Issue.  The message is its template, followed by the interpolated
\* percentage where the template has one.
Issue(severity, type, message, file, suggestion) ==
  [severity |-> severity, type |-> type, message |-> message,
   file |-> file, suggestion |-> suggestion]

\* A detector that reports something.
detectUnplannedChanges_mutant(filePath, task) == <<"Unplanned change">>

\* Strict mode's detector: the source returns the empty list it starts with.
detectUnplannedChanges(filePath, task) == <<>>

\* The issues the strict-mode block of verifyTask appends.
strictModeIssues(task, fileExists, strictMode) ==
  IF strictMode /\ fileExists
  THEN LET unplannedChanges == detectUnplannedChanges(task.file, task)
       IN  [i \in 1..Len(unplannedChanges) |->
              Issue("warning", "extra-changes", <<unplannedChanges[i]>>,
                    task.file, NoValue)]
  ELSE <<>>

\* Reading every file that exists, whatever the task's type.
readsContent_mutant(task, fileExists) == fileExists

\* verifyTask reads the file exactly when this holds.
readsContent(task, fileExists) ==
  task.type \in {"create", "modify"} /\ fileExists

\* status, issues and matchPercentage as the branch on task.type leaves them;
\* content is looked at only where readsContent holds.
verifyByType(task, fileExists, content) ==
  LET m == calculateMatchPercentage(content, task)
      out(status, issues, matchPercentage) ==
        [status |-> status, issues |-> issues,
         matchPercentage |-> matchPercentage]
  IN
  IF task.type = "create" THEN
    IF ~fileExists
    THEN out("fail",
             <<Issue("error", "missing-implementation",
                     <<"File not created">>, task.file,
                     "Create the file as specified in the plan")>>,
             0)
    ELSE IF m >= Pct(CreatePassAt) THEN out("pass", <<>>, m)
    ELSE IF m >= Pct(CreatePartialAt)
    THEN out("partial",
             <<Issue("warning", "incorrect-implementation",
                     <<"File created but implementation may be incomplete",
                       round(m)>>, task.file,
                     "Review the plan and ensure all requirements are met")>>,
             m)
    ELSE out("fail",
             <<Issue("error", "incorrect-implementation",
                     <<"File created but implementation is significantly different from plan">>,
                     task.file,
                     "Review and align implementation with the plan")>>,
             m)
  ELSE IF task.type = "modify" THEN
    IF ~fileExists
    THEN out("fail",
             <<Issue("error", "missing-implementation",
                     <<"File does not exist">>, task.file,
                     IF task.file = "unknown"
                     THEN "This task may need clarification about which file to modify"
                     ELSE "Check if the file path is correct or if the file needs to be created")>>,
             0)
    ELSE IF m >= Pct(ModifyPassAt) THEN out("pass", <<>>, m)
    ELSE IF m >= Pct(ModifyPartialAt)
    THEN out("partial",
             <<Issue("warning", "incorrect-implementation",
                     <<"Modifications may be incomplete", round(m)>>,
                     task.file,
                     "Verify that all planned changes have been made")>>,
             m)
    ELSE out("fail",
             <<Issue("error", "missing-implementation",
                     <<"Required modifications not detected">>, task.file,
                     "Review the plan and implement the required changes")>>,
             m)
  ELSE IF task.type = "delete" THEN
    IF fileExists
    THEN out("fail",
             <<Issue("error", "extra-changes",
                     <<"File should have been deleted">>, task.file,
                     "Remove this file as specified in the plan")>>,
             0)
    ELSE out("pass", <<>>, Pct(100))
  ELSE out("fail", <<>>, 0)

\* A TaskVerification whose issues of severity error are left out.
verifyTask_mutant(task, fileExists, content, strictMode) ==
  LET r == verifyByType(task, fileExists, content)
  IN  [taskId |-> task.id, file |-> task.file, status |-> r.status,
       issues |-> SelectSeq(r.issues, LAMBDA i : i.severity # "error")
                    \o strictModeIssues(task, fileExists, strictMode),
       matchPercentage |-> r.matchPercentage]

\* The TaskVerification verifyTask returns, given what exists() and
\* readFile() returned to it.
verifyTask(task, fileExists, content, strictMode) ==
  LET r == verifyByType(task, fileExists, content)
  IN  [taskId |-> task.id, file |-> task.file, status |-> r.status,
       issues |-> r.issues \o strictModeIssues(task, fileExists, strictMode),
       matchPercentage |-> r.matchPercentage]

----------------------------------------------------------------------------
\* Task selection

\* if (options.phase): undefined and 0 are falsy; a string of digits, "0"
\* too, is truthy.
phaseGiven(options) ==
  \/ options.phase.type = "number" /\ options.phase.num # 0
  \/ options.phase.type = "string"

\* The phase option taken as a zero-based index into plan.phases.
findPhase_mutant(plan, options) ==
  IF options.phase.type = "number"
       /\ options.phase.num + 1 \in DOMAIN plan.phases
  THEN options.phase.num + 1 ELSE 0

\* plan.phases.find(p => p.order === options.phase), as a position or 0.
findPhase(plan, options) ==
  LET hits == { p \in DOMAIN plan.phases :
                  /\ options.phase.type = "number"
                  /\ plan.phases[p].order = options.phase.num }
  IN  IF hits = {} THEN 0 ELSE CHOOSE p \in hits : \A q \in hits : p <= q

\* The tasks of one phase, as references to the task objects of the plan.
phaseTaskRefs(plan, p) ==
  [t \in 1..Len(plan.phases[p].tasks) |-> [phase |-> p, task |-> t]]

RECURSIVE allTaskRefs(_, _)
allTaskRefs(plan, p) ==
  IF p > Len(plan.phases) THEN <<>>
  ELSE phaseTaskRefs(plan, p) \o allTaskRefs(plan, p + 1)

TaskAt(plan, ref) == plan.phases[ref.phase].tasks[ref.task]

getTasksToVerify(plan, options) ==
  LET tasks == IF phaseGiven(options)
               THEN IF findPhase(plan, options) # 0
                    THEN phaseTaskRefs(plan, findPhase(plan, options))
                    ELSE <<>>
               ELSE allTaskRefs(plan, 1)
  IN  IF options.task # NoValue /\ options.task # ""
      THEN SelectSeq(tasks, LAMBDA r : TaskAt(plan, r).id = options.task)
      ELSE tasks

----------------------------------------------------------------------------
\* Aggregation

Count(seq, P(_)) == Len(SelectSeq(seq, P))

RECURSIVE flattenIssues(_)
flattenIssues(taskResults) ==
  IF taskResults = <<>> THEN <<>>
  ELSE Head(taskResults).issues \o flattenIssues(Tail(taskResults))

\* criticalIssues counting the severity 'critical' alone.
summaryOf_mutant(taskResults, allIssues) ==
  [totalTasks     |-> Len(taskResults),
   tasksCompleted |-> Count(taskResults, LAMBDA t : t.status = "pass"),
   tasksPartial   |-> Count(taskResults, LAMBDA t : t.status = "partial"),
   tasksMissing   |-> Count(taskResults, LAMBDA t : t.status = "fail"),
   criticalIssues |-> Count(allIssues, LAMBDA i : i.severity = "critical"),
   warnings       |-> Count(allIssues, LAMBDA i : i.severity = "warning")]

summaryOf(taskResults, allIssues) ==
  [totalTasks     |-> Len(taskResults),
   tasksCompleted |-> Count(taskResults, LAMBDA t : t.status = "pass"),
   tasksPartial   |-> Count(taskResults, LAMBDA t : t.status = "partial"),
   tasksMissing   |-> Count(taskResults, LAMBDA t : t.status = "fail"),
   criticalIssues |-> Count(allIssues,
                        LAMBDA i : i.severity = "critical" \/ i.severity = "error"),
   warnings       |-> Count(allIssues, LAMBDA i : i.severity = "warning")]

\* The majority test with >= for >.
overallStatusOf_mutant(summary) ==
  IF summary.criticalIssues > 0
       \/ 2 * summary.tasksMissing >= summary.totalTasks
  THEN "fail"
  ELSE IF summary.tasksPartial > 0 \/ summary.tasksMissing > 0
  THEN "partial"
  ELSE "pass"

\* tasksMissing > totalTasks / 2 is a comparison of reals, decided here
\* without the division.
overallStatusOf(summary) ==
  IF summary.criticalIssues > 0
       \/ 2 * summary.tasksMissing > summary.totalTasks
  THEN "fail"
  ELSE IF summary.tasksPartial > 0 \/ summary.tasksMissing > 0
  THEN "partial"
  ELSE "pass"

\* A review line for every failed task, however many there are.
generateRecommendations_mutant(taskResults, summary) ==
  LET missing  == IF summary.tasksMissing > 0
                  THEN << <<"Complete the missing tasks", summary.tasksMissing,
                            IF summary.tasksMissing > 1 THEN "s" ELSE "">> >>
                  ELSE <<>>
      partial  == IF summary.tasksPartial > 0
                  THEN << <<"Review and improve the partially implemented tasks",
                            summary.tasksPartial,
                            IF summary.tasksPartial > 1 THEN "s" ELSE "">> >>
                  ELSE <<>>
      critical == IF summary.criticalIssues > 0
                  THEN << <<"Address critical issues before proceeding">> >>
                  ELSE <<>>
      failedTasks == SelectSeq(taskResults, LAMBDA t : t.status = "fail")
      review   == [i \in 1..Len(failedTasks) |->
                     <<"Review implementation of", failedTasks[i].file>>]
      recommendations == missing \o partial \o critical \o review
  IN  IF Len(recommendations) = 0
      THEN << <<"Implementation looks good! Consider code review before merging">> >>
      ELSE recommendations

\* A recommendation is its template with the values interpolated into it.
generateRecommendations(taskResults, summary) ==
  LET missing  == IF summary.tasksMissing > 0
                  THEN << <<"Complete the missing tasks", summary.tasksMissing,
                            IF summary.tasksMissing > 1 THEN "s" ELSE "">> >>
                  ELSE <<>>
      partial  == IF summary.tasksPartial > 0
                  THEN << <<"Review and improve the partially implemented tasks",
                            summary.tasksPartial,
                            IF summary.tasksPartial > 1 THEN "s" ELSE "">> >>
                  ELSE <<>>
      critical == IF summary.criticalIssues > 0
                  THEN << <<"Address critical issues before proceeding">> >>
                  ELSE <<>>
      failedTasks == SelectSeq(taskResults, LAMBDA t : t.status = "fail")
      review   == IF Len(failedTasks) > 0 /\ Len(failedTasks) <= 3
                  THEN [i \in 1..Len(failedTasks) |->
                          <<"Review implementation of", failedTasks[i].file>>]
                  ELSE <<>>
      recommendations == missing \o partial \o critical \o review
  IN  IF Len(recommendations) = 0
      THEN << <<"Implementation looks good! Consider code review before merging">> >>
      ELSE recommendations

\* A VerificationResult naming a phase only when the plan has it.
resultOf_mutant(plan, options, taskResults, allIssues, timestamp) ==
  LET summary == summaryOf(taskResults, allIssues)
  IN  [planId          |-> plan.id,
       phaseId         |-> IF phaseGiven(options) /\ findPhase(plan, options) # 0
                           THEN <<"phase-", options.phase.num>> ELSE <<>>,
       timestamp       |-> timestamp,
       overallStatus   |-> overallStatusOf(summary),
       taskResults     |-> taskResults,
       summary         |-> summary,
       recommendations |-> generateRecommendations(taskResults, summary)]

\* The VerificationResult verify builds once its loop has ended.
resultOf(plan, options, taskResults, allIssues, timestamp) ==
  LET summary == summaryOf(taskResults, allIssues)
  IN  [planId          |-> plan.id,
       phaseId         |-> IF phaseGiven(options)
                           THEN <<"phase-", options.phase.num>> ELSE <<>>,
       timestamp       |-> timestamp,
       overallStatus   |-> overallStatusOf(summary),
       taskResults     |-> taskResults,
       summary         |-> summary,
       recommendations |-> generateRecommendations(taskResults, summary)]

----------------------------------------------------------------------------
\* Planner: phases

Letters == Range(LowerLetters) \cup Range(UpperLetters)

Least(S) == CHOOSE x \in S : \A y \in S : x <= y

\* The element of a one-element set.  Only({ e(x) : x \in {v} }) is e with
\* x standing for the value of v, computed once.
Only(S) == CHOOSE x \in S : TRUE

\* text.slice(0, n)
slice(text, n) == SubSeq(text, 1, Min(n, Len(text)))

\* String.prototype.trim
trim(text) ==
  LET kept == { i \in DOMAIN text : text[i] \notin Whitespace }
  IN  IF kept = {} THEN <<>>
      ELSE SubSeq(text, Least(kept), CHOOSE i \in kept : \A j \in kept : j <= i)

\* The literal lit stands in text at position i.
startsWithAt(text, i, lit) ==
  /\ i >= 1
  /\ i + Len(lit) - 1 <= Len(text)
  /\ SubSeq(text, i, i + Len(lit) - 1) = lit

\* The same under the flag i.
startsWithAtI(text, i, lit) ==
  /\ i >= 1
  /\ i + Len(lit) - 1 <= Len(text)
  /\ toLowerCase(SubSeq(text, i, i + Len(lit) - 1)) = toLowerCase(lit)

\* A greedy class+ or class* at position i: the last position of the
\* longest run of characters of the class, i - 1 when the run is empty.
RECURSIVE runEnd(_, _, _)
runEnd(text, i, class) ==
  IF i <= Len(text) /\ text[i] \in class
  THEN runEnd(text, i + 1, class)
  ELSE i - 1

PhaseWord == <<"P", "h", "a", "s", "e">>

\* ##\s matches at position j: the pattern is not anchored, so the last
\* two marks of ### or #### match as well.
headingAt(text, j) ==
  /\ j + 2 <= Len(text)
  /\ text[j] = "#" /\ text[j + 1] = "#" /\ text[j + 2] \in Whitespace

\* (?:Phase\s+\d+[:\s]+)? tried at position q with (.+?) to follow: the
\* position where the capture begins.  The group is taken when it matches
\* and leaves a character for the capture, its last class giving one
\* character back if it must; otherwise the capture begins at q.
captureStartAfter(text, q) ==
  LET r == runEnd(text, q + Len(PhaseWord), Whitespace)
      d == runEnd(text, r + 1, Digits)
      c == runEnd(text, d + 1, {":"} \cup Whitespace)
      grouped == /\ startsWithAt(text, q, PhaseWord)
                 /\ r >= q + Len(PhaseWord) /\ d >= r + 1 /\ c >= d + 1
  IN  IF grouped /\ c < Len(text) THEN c + 1
      ELSE IF grouped /\ c >= d + 2 THEN c
      ELSE q

\* One match of /##\s+(?:Phase\s+\d+[:\s]+)?(.+?)(?=##\s+|$)/gs starting at
\* position i, where ##\s stands: <<>> when there is none, else where the
\* match starts, where its capture starts and the position after its end.
\* The lazy capture, which crosses line ends, stops before the next ##\s
\* or at the end of the text.
phaseMatchAt(text, i) ==
  LET w == runEnd(text, i + 2, Whitespace)
      a == IF w < Len(text) THEN captureStartAfter(text, w + 1)
           ELSE IF w >= i + 3 THEN w
           ELSE 0
      ends == { j \in (a + 1)..(Len(text) + 1) :
                  j = Len(text) + 1 \/ headingAt(text, j) }
  IN  IF a = 0 THEN <<>>
      ELSE <<[index |-> i, captureFrom |-> a, end |-> Least(ends)]>>

\* matchAll among the positions starts where a match can begin, from
\* position pos on: the leftmost match, then the matches after its end.
RECURSIVE phaseMatchesFrom(_, _, _)
phaseMatchesFrom(text, starts, pos) ==
  LET left == { i \in starts : i >= pos }
  IN  IF left = {} THEN <<>>
      ELSE Only({ <<m>> \o phaseMatchesFrom(text, starts, m.end) :
                  m \in {phaseMatchAt(text, Least(left))[1]} })

\* markdown.matchAll(phasePattern)
phaseMatches(text) ==
  Only({ phaseMatchesFrom(text, starts, 1) :
         starts \in {{ i \in DOMAIN text :
                         headingAt(text, i) /\ phaseMatchAt(text, i) # <<>> }} })

----------------------------------------------------------------------------
\* Planner: tasks

\* The character U+0060, which a string of the module cannot hold.
Backtick == "U+0060"

StemChars == Letters \cup Digits \cup {"_", "-", "/"}

Verbs == <<<<"C", "r", "e", "a", "t", "e">>,
           <<"A", "d", "d">>,
           <<"M", "o", "d", "i", "f", "y">>,
           <<"U", "p", "d", "a", "t", "e">>,
           <<"E", "d", "i", "t">>>>
Labels == <<<<"F", "i", "l", "e">>, <<"P", "a", "t", "h">>>>

\* `([^`]+\.[a-z]+)` under the flag i, its opening backtick at b: the
\* text up to the next backtick, when it ends in a dot and letters with
\* something before the dot.
quotedFileAt(text, b) ==
  LET closers == { e \in (b + 1)..Len(text) : text[e] = Backtick }
      e == Least(closers)
      X == SubSeq(text, b + 1, e - 1)
      dots == { k \in DOMAIN X : X[k] = "." }
      d == CHOOSE k \in dots : \A j \in dots : j <= k
  IN  IF /\ b <= Len(text) /\ text[b] = Backtick
         /\ closers # {} /\ dots # {}
         /\ d >= 2 /\ d < Len(X)
         /\ \A k \in (d + 1)..Len(X) : X[k] \in Letters
      THEN <<[capture |-> X, end |-> e]>>
      ELSE <<>>

\* /(?:Create|Add|Modify|Update|Edit)\s+`([^`]+\.[a-z]+)`/gi at position i
verbFileAt(text, i) ==
  LET vs == { v \in DOMAIN Verbs : startsWithAtI(text, i, Verbs[v]) }
      n  == Len(Verbs[Least(vs)])
      w  == runEnd(text, i + n, Whitespace)
  IN  IF vs # {} /\ w >= i + n THEN quotedFileAt(text, w + 1) ELSE <<>>

\* /(?:File|Path):\s*`([^`]+\.[a-z]+)`/gi at position i
labelFileAt(text, i) ==
  LET ls == { l \in DOMAIN Labels : startsWithAtI(text, i, Labels[l]) }
      n  == Len(Labels[Least(ls)])
      w  == runEnd(text, i + n + 1, Whitespace)
  IN  IF ls # {} /\ i + n <= Len(text) /\ text[i + n] = ":"
      THEN quotedFileAt(text, w + 1) ELSE <<>>

\* /`([a-zA-Z0-9_\-\/]+\.[a-z]{2,4})`/g at position i
bareFileAt(text, i) ==
  LET st == runEnd(text, i + 1, StemChars)
      x  == runEnd(text, st + 2, Range(LowerLetters))
  IN  IF /\ text[i] = Backtick
         /\ st >= i + 1
         /\ st + 1 <= Len(text) /\ text[st + 1] = "."
         /\ x - (st + 1) \in 2..4
         /\ x + 1 <= Len(text) /\ text[x + 1] = Backtick
      THEN <<[capture |-> SubSeq(text, i + 1, x), end |-> x + 1]>>
      ELSE <<>>

\* filePatterns[k] at position i
filePatternAt(k, text, i) ==
  CASE k = 1 -> verbFileAt(text, i)
    [] k = 2 -> labelFileAt(text, i)
    [] k = 3 -> bareFileAt(text, i)

RECURSIVE fileMatchesFrom(_, _, _, _)
fileMatchesFrom(k, text, starts, pos) ==
  LET left == { i \in starts : i >= pos }
  IN  IF left = {} THEN <<>>
      ELSE Only({ <<m.capture>> \o fileMatchesFrom(k, text, starts, m.end + 1) :
                  m \in {filePatternAt(k, text, Least(left))[1]} })

\* The captures of content.matchAll(filePatterns[k]).
fileMatches(k, text) ==
  Only({ fileMatchesFrom(k, text, starts, 1) :
         starts \in {{ i \in DOMAIN text : filePatternAt(k, text, i) # <<>> }} })

\* Every capture added, as to an array.
RECURSIVE addAll_mutant(_, _)
addAll_mutant(found, captures) ==
  IF captures = <<>> THEN found
  ELSE addAll_mutant(Append(found, Head(captures)), Tail(captures))

\* filesFound.add for each capture the set does not have yet; a Set keeps
\* its values in insertion order.
RECURSIVE addAll(_, _)
addAll(found, captures) ==
  IF captures = <<>> THEN found
  ELSE addAll(IF Head(captures) \in Range(found) THEN found
              ELSE Append(found, Head(captures)),
              Tail(captures))

filesFound(content) ==
  addAll(addAll(addAll(<<>>, fileMatches(1, content)),
                fileMatches(2, content)),
         fileMatches(3, content))

\* The separators /[.!?]\s+/ finds among the positions starts, from pos on.
RECURSIVE separatorsFrom(_, _, _)
separatorsFrom(text, starts, pos) ==
  LET left == { i \in starts : i >= pos }
  IN  IF left = {} THEN <<>>
      ELSE Only({ <<[index |-> i, end |-> e]>> \o separatorsFrom(text, starts, e + 1) :
                  i \in {Least(left)},
                  e \in {runEnd(text, Least(left) + 1, Whitespace)} })

\* content.split(/[.!?]\s+/): the texts between the separators, a
\* separator being one of the three marks and the blanks after it.
splitSentences(text) ==
  Only({ [n \in 1..(Len(seps) + 1) |->
           SubSeq(text,
                  IF n = 1 THEN 1 ELSE seps[n - 1].end + 1,
                  IF n > Len(seps) THEN Len(text) ELSE seps[n].index - 1)] :
         seps \in {separatorsFrom(text,
                     { i \in DOMAIN text :
                         /\ text[i] \in {".", "!", "?"}
                         /\ i + 1 <= Len(text) /\ text[i + 1] \in Whitespace },
                     1)} })

ReasoningLimit == 200
DefaultReasoning == <<"I", "m", "p", "l", "e", "m", "e", "n", "t", " ", "a", "s", " ", "d", "e", "s", "c", "r", "i", "b", "e", "d", " ", "i", "n", " ", "t", "h", "e", " ", "p", "l", "a", "n">>

extractReasoning(content, file) ==
  Only({ LET relevant == { k \in DOMAIN sentences : includes(sentences[k], file) }
         IN  IF relevant = {} THEN DefaultReasoning
             ELSE slice(trim(sentences[Least(relevant)]), ReasoningLimit) :
         sentences \in {splitSentences(content)} })

determineTaskType_mutant(content, file) ==
  Only({ IF \/ includes(lowerContent, <<"d", "e", "l", "e", "t", "e", " ">> \o lowerFile)
            \/ includes(lowerContent, <<"r", "e", "m", "o", "v", "e", " ">> \o lowerFile)
         THEN "delete"
         ELSE IF \/ includes(lowerContent, <<"c", "r", "e", "a", "t", "e", " ">> \o lowerFile)
                 \/ includes(lowerContent, <<"n", "e", "w", " ">> \o lowerFile)
                 \/ includes(lowerContent, <<"a", "d", "d", " ">> \o lowerFile)
         THEN "create"
         ELSE "modify" :
         lowerContent \in {toLowerCase(content)},
         lowerFile \in {toLowerCase(file)} })

determineTaskType(content, file) ==
  Only({
      IF \/ includes(lowerContent, <<"c", "r", "e", "a", "t", "e", " ">> \o lowerFile)
         \/ includes(lowerContent, <<"n", "e", "w", " ">> \o lowerFile)
         \/ includes(lowerContent, <<"a", "d", "d", " ">> \o lowerFile)
      THEN "create"
      ELSE IF \/ includes(lowerContent, <<"d", "e", "l", "e", "t", "e", " ">> \o lowerFile)
              \/ includes(lowerContent, <<"r", "e", "m", "o", "v", "e", " ">> \o lowerFile)
      THEN "delete"
      ELSE "modify" :
    lowerContent \in {toLowerCase(content)}, lowerFile \in {toLowerCase(file)} })

\* taskType.charAt(0).toUpperCase() + taskType.slice(1)
capitalized(taskType) ==
  CASE taskType = "create" -> <<"C", "r", "e", "a", "t", "e">>
    [] taskType = "modify" -> <<"M", "o", "d", "i", "f", "y">>
    [] taskType = "delete" -> <<"D", "e", "l", "e", "t", "e">>

TaskPrefix == <<"t", "a", "s", "k", "-">>

\* The second argument filesFound.forEach passes to its callback for the
\* n-th value: a Set has no indices, its key is the value itself.
forEachKey(found, n) == found[n]

\* idx + 1 with idx a string: the string followed by "1".
plusOne(idx) == idx \o <<"1">>

\* The task kept for a phase that names no file.
PlaceholderTask ==
  [id          |-> TaskPrefix \o <<"1">>,
   type        |-> "modify",
   file        |-> <<"i", "m", "p", "l", "e", "m", "e", "n", "t", "a", "t", "i", "o", "n">>,
   description |-> <<"I", "m", "p", "l", "e", "m", "e", "n", "t", " ", "t", "h", "e", " ", "p", "l", "a", "n", "n", "e", "d", " ", "c", "h", "a", "n", "g", "e", "s">>,
   reasoning   |-> <<"A", "s", " ", "d", "e", "s", "c", "r", "i", "b", "e", "d", " ", "i", "n", " ", "t", "h", "e", " ", "p", "l", "a", "n">>,
   changes     |-> <<>>]

\* The task of the n-th value of filesFound.
fileTask(content, found, n) ==
  Only({ [id          |-> TaskPrefix \o plusOne(forEachKey(found, n)),
          type        |-> taskType,
          file        |-> found[n],
          description |-> capitalized(taskType) \o <<" ">> \o found[n],
          reasoning   |-> extractReasoning(content, found[n]),
          changes     |-> <<>>] :
         taskType \in {determineTaskType(content, found[n])} })

extractTasks(content) ==
  Only({ IF Len(found) = 0 THEN <<PlaceholderTask>>
         ELSE [n \in 1..Len(found) |-> fileTask(content, found, n)] :
         found \in {filesFound(content)} })

PhaseDescriptionLimit == 200

\* The one phase of a plan in which the pattern found no match.
DefaultPhase(markdown) ==
  [id           |-> <<"phase-", 1>>,
   order        |-> 1,
   name         |-> <<"I", "m", "p", "l", "e", "m", "e", "n", "t", "a", "t", "i", "o", "n">>,
   description  |-> <<"C", "o", "m", "p", "l", "e", "t", "e", " ", "i", "m", "p", "l", "e", "m", "e", "n", "t", "a", "t", "i", "o", "n">>,
   tasks        |-> extractTasks(markdown),
   dependencies |-> <<>>,
   status       |-> "pending"]

\* The phase of the k-th match, phaseContent being match[0] and captured
\* match[1].
matchedPhase(k, phaseContent, captured) ==
  [id           |-> <<"phase-", k>>,
   order        |-> k,
   name         |-> trim(captured),
   description  |-> slice(phaseContent, PhaseDescriptionLimit),
   tasks        |-> extractTasks(phaseContent),
   dependencies |-> IF k > 1 THEN << <<"phase-", k - 1>> >> ELSE <<>>,
   status       |-> "pending"]

extractPhases(markdown) ==
  Only({ IF Len(matches) = 0 THEN <<DefaultPhase(markdown)>>
         ELSE [k \in 1..Len(matches) |->
                Only({ matchedPhase(k, phaseContent, captured) :
                       phaseContent \in {SubSeq(markdown, matches[k].index,
                                                matches[k].end - 1)},
                       captured \in {SubSeq(markdown, matches[k].captureFrom,
                                            matches[k].end - 1)} })] :
         matches \in {phaseMatches(markdown)} })

----------------------------------------------------------------------------
\* Planner: the plan

\* i is the first position of a line.
lineStart(text, i) == i = 1 \/ (i > 1 /\ text[i - 1] = "\n")

\* markdown.match(/^#\s+(.+)$/m) tried at line start i: <<>> or <<the
\* capture>>.  \s+ may run over line ends; it stops where a character
\* other than a line end is left for the capture, which runs to the end of
\* its line.
titleMatchAt(text, i) ==
  LET w     == runEnd(text, i + 1, Whitespace)
      stops == { k \in (i + 1)..w : k + 1 <= Len(text) /\ text[k + 1] # "\n" }
      k     == CHOOSE x \in stops : \A y \in stops : y <= x
      eols  == { e \in (k + 1)..Len(text) : text[e] = "\n" }
  IN  IF text[i] = "#" /\ stops # {}
      THEN <<SubSeq(text, k + 1,
                    IF eols = {} THEN Len(text) ELSE Least(eols) - 1)>>
      ELSE <<>>

TitleFallbackLimit == 100

\* titleMatch ? titleMatch[1] : description.slice(0, 100)
titleOf(markdown, description) ==
  LET starts == { i \in DOMAIN markdown :
                    lineStart(markdown, i) /\ titleMatchAt(markdown, i) # <<>> }
  IN  IF starts = {} THEN slice(description, TitleFallbackLimit)
      ELSE titleMatchAt(markdown, Least(starts))[1]

\* /`([a-zA-Z0-9_\-\/\.]+\.[a-z]{2,4})`/g at position i: the run of class
\* characters between two backticks, when it ends in a dot and two to four
\* lower-case letters with something before the dot.
mentionedFileAt(text, i) ==
  LET r == runEnd(text, i + 1, StemChars \cup {"."})
      R == SubSeq(text, i + 1, r)
  IN  IF /\ text[i] = Backtick
         /\ r + 1 <= Len(text) /\ text[r + 1] = Backtick
         /\ \E n \in 2..4 :
              /\ Len(R) - n >= 2
              /\ R[Len(R) - n] = "."
              /\ \A k \in (Len(R) - n + 1)..Len(R) : R[k] \in Range(LowerLetters)
      THEN <<[capture |-> R, end |-> r + 1]>>
      ELSE <<>>

RECURSIVE mentionedFilesFrom(_, _, _)
mentionedFilesFrom(text, starts, pos) ==
  LET left == { i \in starts : i >= pos }
  IN  IF left = {} THEN <<>>
      ELSE Only({ <<m.capture>> \o mentionedFilesFrom(text, starts, m.end + 1) :
                  m \in {mentionedFileAt(text, Least(left))[1]} })

\* The captures of markdown.matchAll(filePattern).
mentionedFiles(text) ==
  Only({ mentionedFilesFrom(text, starts, 1) :
         starts \in {{ i \in DOMAIN text : mentionedFileAt(text, i) # <<>> }} })

\* Array.from(files), no capture holding a blank
extractFilesMentioned(markdown) ==
  addAll(<<>>, SelectSeq(mentionedFiles(markdown),
                         LAMBDA f : ~includes(f, <<" ">>)))

HighFiles    == 10
HighPhases   == 5
HighWords    == 2000
MediumFiles  == 5
MediumPhases == 2
MediumWords  == 1000

complexityOf_mutant(wordCount, phaseCount, fileCount) ==
  IF fileCount >= HighFiles \/ phaseCount > HighPhases \/ wordCount > HighWords
  THEN "high"
  ELSE IF \/ fileCount > MediumFiles \/ phaseCount > MediumPhases
          \/ wordCount > MediumWords
  THEN "medium"
  ELSE "low"

\* The thresholds of estimateComplexity on the three counts.
complexityOf(wordCount, phaseCount, fileCount) ==
  IF fileCount > HighFiles \/ phaseCount > HighPhases \/ wordCount > HighWords
  THEN "high"
  ELSE IF \/ fileCount > MediumFiles \/ phaseCount > MediumPhases
          \/ wordCount > MediumWords
  THEN "medium"
  ELSE "low"

\* markdown.split(/\s+/).length: one more than the runs of whitespace.
wordCountOf(markdown) ==
  1 + Cardinality({ i \in DOMAIN markdown :
                      /\ markdown[i] \in Whitespace
                      /\ (i = 1 \/ markdown[i - 1] \notin Whitespace) })

estimateComplexity(markdown, phaseCount, fileCount) ==
  complexityOf(wordCountOf(markdown), phaseCount, fileCount)

baseHours(complexity) ==
  CASE complexity = "low" -> 2
    [] complexity = "medium" -> 6
    [] complexity = "high" -> 16

HoursPerDay  == 8
HoursPerWeek == 40

\* Math.ceil(a / b) for positive integers
ceilDiv(a, b) == (a + b - 1) \div b

estimateTime_mutant(complexity, phases) ==
  LET hours == baseHours(complexity) * phases
  IN  IF hours < HoursPerDay THEN <<hours, "hours">>
      ELSE IF hours < HoursPerWeek THEN <<hours \div HoursPerDay, "days">>
      ELSE <<hours \div HoursPerWeek, "weeks">>

estimateTime(complexity, phases) ==
  LET hours == baseHours(complexity) * phases
  IN  IF hours < HoursPerDay THEN <<hours, "hours">>
      ELSE IF hours < HoursPerWeek THEN <<ceilDiv(hours, HoursPerDay), "days">>
      ELSE <<ceilDiv(hours, HoursPerWeek), "weeks">>

DependenciesLimit == 10

\* The Plan built from what the extraction found.
planOf(description, analysis, clock, title, phases, filesAffected, complexity) ==
  [id          |-> <<"plan-", clock>>,
   title       |-> title,
   description |-> description,
   timestamp   |-> clock,
   phases      |-> phases,
   metadata    |-> [estimatedComplexity |-> complexity,
                    filesAffected |-> filesAffected,
                    dependencies  |-> slice(analysis.project.dependencies,
                                            DependenciesLimit),
                    estimatedTime |-> estimateTime(complexity, Len(phases))],
   status      |-> "ready"]

\* clock is what Date.now() and new Date() read.
parsePlanFromMarkdown(markdown, description, analysis, clock) ==
  Only({ planOf(description, analysis, clock,
                titleOf(markdown, description), phases, filesAffected,
                estimateComplexity(markdown, Len(phases), Len(filesAffected))) :
         phases \in {extractPhases(markdown)},
         filesAffected \in {extractFilesMentioned(markdown)} })

----------------------------------------------------------------------------
\* Inputs

\* "Add the API"
DescNone ==
  <<"A", "d", "d", " ", "t", "h", "e", " ", "A", "P", "I">>
\* "Add parseConfig helper function"
DescScenario ==
  <<"A", "d", "d", " ", "p", "a", "r", "s", "e", "C", "o", "n", "f", "i", "g", " ", "h", "e", "l", "p", "e", "r", " ", "f", "u", "n", "c", "t", "i", "o", "n">>
\* "Add parseConfig loader, helper"
DescThree ==
  <<"A", "d", "d", " ", "p", "a", "r", "s", "e", "C", "o", "n", "f", "i", "g", " ", "l", "o", "a", "d", "e", "r", ",", " ", "h", "e", "l", "p", "e", "r">>
\* "alpha bravo delta gamma kappa lambda omega sigma theta zeta extra"
DescEleven ==
  <<"a", "l", "p", "h", "a", " ", "b", "r", "a", "v", "o", " ", "d", "e", "l", "t", "a", " ", "g", "a", "m", "m", "a", " ", "k", "a", "p", "p", "a", " ", "l", "a", "m", "b", "d", "a", " ", "o", "m", "e", "g", "a", " ", "s", "i", "g", "m", "a", " ", "t", "h", "e", "t", "a", " ", "z", "e", "t", "a", " ", "e", "x", "t", "r", "a">>
\* "// todo"
ContentNone ==
  <<"/", "/", " ", "t", "o", "d", "o">>
\* "function parseConfig()"
ContentOne ==
  <<"f", "u", "n", "c", "t", "i", "o", "n", " ", "p", "a", "r", "s", "e", "C", "o", "n", "f", "i", "g", "(", ")">>
\* "loader(parseConfig)"
ContentTwo ==
  <<"l", "o", "a", "d", "e", "r", "(", "p", "a", "r", "s", "e", "C", "o", "n", "f", "i", "g", ")">>
\* "helper = loader(parseConfig)"
ContentThree ==
  <<"h", "e", "l", "p", "e", "r", " ", "=", " ", "l", "o", "a", "d", "e", "r", "(", "p", "a", "r", "s", "e", "C", "o", "n", "f", "i", "g", ")">>
\* "parseconfig loader"
ContentLower ==
  <<"p", "a", "r", "s", "e", "c", "o", "n", "f", "i", "g", " ", "l", "o", "a", "d", "e", "r">>
\* "alpha bravo delta gamma kappa lambda omega sigma theta zeta"
ContentTen ==
  <<"a", "l", "p", "h", "a", " ", "b", "r", "a", "v", "o", " ", "d", "e", "l", "t", "a", " ", "g", "a", "m", "m", "a", " ", "k", "a", "p", "p", "a", " ", "l", "a", "m", "b", "d", "a", " ", "o", "m", "e", "g", "a", " ", "s", "i", "g", "m", "a", " ", "t", "h", "e", "t", "a", " ", "z", "e", "t", "a">>
\* "extra"
ContentExtra ==
  <<"e", "x", "t", "r", "a">>
\* "loader()"
CodeLoader ==
  <<"l", "o", "a", "d", "e", "r", "(", ")">>
\* "parseConfig(path)"
CodeCamel ==
  <<"p", "a", "r", "s", "e", "C", "o", "n", "f", "i", "g", "(", "p", "a", "t", "h", ")">>

\* Bounds of the model.
MaxPhases   == 2
MaxRuns     == 2
MaxFsEvents == 1

\* Task ids of a persisted plan, unique within a phase.
TaskIds == <<"task-1", "task-2", "task-3", "task-4">>

Change(code) == [code |-> code]

TaskKind(type, file, description, changes) ==
  [type |-> type, file |-> file, description |-> description,
   changes |-> changes]

\* The task lists a phase is drawn from.
PhaseTaskKinds ==
  { << TaskKind("create", "a.ts", DescThree, <<>>) >>,
    << TaskKind("create", "a.ts", DescThree, <<>>),
       TaskKind("rename", "b.ts", DescNone, <<>>) >>,
    << TaskKind("modify", "a.ts", DescThree,
                << Change(<<CodeCamel>>) >>),
       TaskKind("delete", "b.ts", DescNone, <<>>) >>,
    << TaskKind("delete", "a.ts", DescNone, <<>>),
       TaskKind("move", "b.ts", DescNone, <<>>) >> }

Task(kind, n) ==
  [id |-> TaskIds[n], type |-> kind.type, file |-> kind.file,
   description |-> kind.description, changes |-> kind.changes]

\* A persisted Plan as the verifier reads it: phase order is its position.
Phase(kinds, k) ==
  [id |-> <<"phase-", k>>, order |-> k,
   tasks |-> [n \in 1..Len(kinds) |-> Task(kinds[n], n)]]

Plans ==
  { [id |-> "plan-1", phases |-> [k \in 1..n |-> Phase(kinds[k], k)]] :
      n \in 1..MaxPhases, kinds \in [1..MaxPhases -> PhaseTaskKinds] }

\* The state of one path of the project directory.
Absent == [present |-> FALSE, readable |-> FALSE, content |-> <<>>]
File(content)       == [present |-> TRUE, readable |-> TRUE, content |-> content]
Unreadable(content) == [present |-> TRUE, readable |-> FALSE, content |-> content]

Files == {"a.ts", "b.ts"}

FileStates(f) ==
  IF f = "a.ts"
  THEN {Absent, Unreadable(ContentThree), File(ContentNone),
        File(ContentTwo), File(ContentThree)}
  ELSE {Absent, File(ContentNone)}

\* What another process may leave at a path: unlink it, take the read
\* permission away, or write it.
FsEventStates(f) ==
  {Absent, Unreadable(ContentThree), File(ContentTwo)} \cap FileStates(f)

FileSystems == { s \in [Files -> UNION {FileStates(f) : f \in Files}] :
                   \A f \in Files : s[f] \in FileStates(f) }

Undefined == [type |-> "undefined", num |-> 0]
Number(n) == [type |-> "number", num |-> n]
\* The string that is the decimal numeral of n.
String(n) == [type |-> "string", num |-> n]

PhaseOptions == {Undefined} \cup {Number(n) : n \in (-1)..(MaxPhases + 1)}
TaskOptions  == {NoValue, "task-2"}

VerifyOptions ==
  [phase : PhaseOptions, task : TaskOptions, strictMode : BOOLEAN]

----------------------------------------------------------------------------
\* State

VARIABLES
  plan,           \* the Plan handed to Verifier.verify
  fs,             \* the project directory: path -> state of the file
  options,        \* the VerifyOptions of the current call
  now,            \* the clock new Date() reads
  pc,             \* where the current call of verify is
  tasksToVerify,  \* verify's tasksToVerify (references into plan)
  cursor,         \* position of the for loop in tasksToVerify
  taskResults,    \* verify's taskResults
  allIssues,      \* verify's allIssues
  result,         \* <<the VerificationResult>> once verify has returned
  runs,           \* calls of verify so far
  fsEvents,       \* changes other processes made to the directory so far
  fsChanged,      \* the directory changed since the current call began
  previous,       \* <<options, result>> of the call before, kept while the
                  \* directory is as that call found it
  observed,       \* per finished task: what exists() returned to verifyTask
                  \* and whether it went on to read the file
  probe,          \* one application of calculateMatchPercentage
  command,        \* the planfirst verify process: its arguments, how far
                  \* verifyCommand has come, its exit code
  extraction,     \* one application of Planner.parsePlanFromMarkdown
  estimate,       \* one application of estimateComplexity and estimateTime
  execution       \* the phases of a plan under execution

vars == <<plan, fs, options, now, pc, tasksToVerify, cursor, taskResults,
          allIssues, result, runs, fsEvents, fsChanged, previous, observed,
          probe, command, extraction, estimate, execution>>

NoProbe ==
  [content |-> <<>>, task |-> Task(TaskKind("create", "a.ts", <<>>, <<>>), 1),
   scored |-> FALSE, keywords |-> <<>>, score |-> 0, status |-> "fail"]

\* No planfirst process is running: Verifier.verify is called directly.
NoCommand ==
  [pc |-> "none", setup |-> "ok", phase |-> Undefined, task |-> NoValue,
   report |-> FALSE, verification |-> <<>>, reportSaved |-> FALSE,
   exitCode |-> <<>>]

NoEstimate ==
  [wordCount |-> 1, phaseCount |-> 1, fileCount |-> 0, estimated |-> FALSE,
   complexity |-> "low", time |-> <<0, "hours">>]

NoExecution == [phases |-> <<>>, chain |-> FALSE]

NoAnalysis == [project |-> [dependencies |-> <<>>]]

NoExtraction ==
  [markdown |-> <<>>, description |-> <<>>, analysis |-> NoAnalysis,
   parsed |-> FALSE, plan |-> <<>>, earlier |-> <<>>]

Init ==
  /\ plan \in Plans
  /\ fs \in FileSystems
  /\ options \in VerifyOptions
  /\ now = 1
  /\ pc = "idle"
  /\ tasksToVerify = <<>>
  /\ cursor = 1
  /\ taskResults = <<>>
  /\ allIssues = <<>>
  /\ result = <<>>
  /\ runs = 0
  /\ fsEvents = 0
  /\ fsChanged = FALSE
  /\ previous = <<>>
  /\ observed = <<>>
  /\ probe = NoProbe
  /\ command = NoCommand
  /\ extraction = NoExtraction
  /\ estimate = NoEstimate
  /\ execution = NoExecution

\* fs.access(path) succeeds: the path is visible, readable or not.
exists(filePath) == fs[filePath].present

\* fs.readFile(path, 'utf-8') succeeds.
canRead(filePath) == fs[filePath].present /\ fs[filePath].readable

CurrentTask == TaskAt(plan, tasksToVerify[cursor])

\* options.strictMode || false
strictModeOf(opts) == opts.strictMode

\* taskResults.unshift for taskResults.push.
Push_mutant(taskResult, fileExists, read) ==
  LET results == <<taskResult>> \o taskResults
      issues  == allIssues \o taskResult.issues
  IN  /\ taskResults' = results
      /\ observed' = Append(observed, [exists |-> fileExists, read |-> read])
      /\ allIssues' = issues
      /\ cursor' = cursor + 1
      /\ IF cursor < Len(tasksToVerify)
         THEN pc' = "exists" /\ result' = <<>>
         ELSE /\ pc' = "done"
              /\ result' = <<resultOf(plan, options, results, issues, now)>>

\* The loop body's tail and what follows the loop: push the task's result,
\* then either start the next task's existence check or build the result.
Push(taskResult, fileExists, read) ==
  LET results == Append(taskResults, taskResult)
      issues  == allIssues \o taskResult.issues
  IN  /\ taskResults' = results
      /\ observed' = Append(observed, [exists |-> fileExists, read |-> read])
      /\ allIssues' = issues
      /\ cursor' = cursor + 1
      /\ IF cursor < Len(tasksToVerify)
         THEN pc' = "exists" /\ result' = <<>>
         ELSE /\ pc' = "done"
              /\ result' = <<resultOf(plan, options, results, issues, now)>>

\* allIssues kept across calls (a module-level array) instead of a fresh
\* local of each call.
BeginVerify_mutant(opts) ==
  /\ options' = opts
  /\ LET tasks == getTasksToVerify(plan, opts)
     IN  /\ tasksToVerify' = tasks
         /\ IF tasks = <<>>
            THEN /\ pc' = "done"
                 /\ result' = <<resultOf(plan, opts, <<>>, <<>>, now)>>
            ELSE pc' = "exists" /\ result' = <<>>
  /\ cursor' = 1
  /\ taskResults' = <<>>
  /\ allIssues' = IF previous = <<>> THEN <<>>
                  ELSE flattenIssues(previous[1].result.taskResults)
  /\ observed' = <<>>
  /\ runs' = runs + 1
  /\ fsChanged' = FALSE
  /\ UNCHANGED <<plan, fs, now, fsEvents, previous, probe, extraction,
                 estimate, execution>>

\* The stretch of Verifier.verify up to its first await: select the tasks
\* and start on the first one, or return at once when none is selected.
BeginVerify(opts) ==
  /\ options' = opts
  /\ LET tasks == getTasksToVerify(plan, opts)
     IN  /\ tasksToVerify' = tasks
         /\ IF tasks = <<>>
            THEN /\ pc' = "done"
                 /\ result' = <<resultOf(plan, opts, <<>>, <<>>, now)>>
            ELSE pc' = "exists" /\ result' = <<>>
  /\ cursor' = 1
  /\ taskResults' = <<>>
  /\ allIssues' = <<>>
  /\ observed' = <<>>
  /\ runs' = runs + 1
  /\ fsChanged' = FALSE
  /\ UNCHANGED <<plan, fs, now, fsEvents, previous, probe, extraction,
                 estimate, execution>>

\* Verifier.verify is called with the options at hand.
Verify ==
  /\ pc = "idle"
  /\ BeginVerify(options)
  /\ UNCHANGED command

\* await exists(filePath) returns to verifyTask.
ExistsReturns ==
  /\ pc = "exists"
  /\ LET fileExists == exists(CurrentTask.file)
     IN  IF readsContent(CurrentTask, fileExists)
         THEN /\ pc' = "read"
              /\ UNCHANGED <<cursor, taskResults, allIssues, result,
                             observed,
                 estimate, execution>>
         ELSE Push(verifyTask(CurrentTask, fileExists, <<>>,
                              strictModeOf(options)), fileExists, FALSE)
  /\ UNCHANGED <<plan, fs, options, now, tasksToVerify, runs, fsEvents,
                 fsChanged, previous, probe, command, extraction,
                 estimate, execution>>

\* await readFile(filePath) returns the content.
ReadFileReturns ==
  /\ pc = "read"
  /\ canRead(CurrentTask.file)
  /\ Push(verifyTask(CurrentTask, TRUE, fs[CurrentTask.file].content,
                     strictModeOf(options)), TRUE, TRUE)
  /\ UNCHANGED <<plan, fs, options, now, tasksToVerify, runs, fsEvents,
                 fsChanged, previous, probe, command, extraction,
                 estimate, execution>>

\* await readFile(filePath) throws FileSystemError; nothing in verifyTask or
\* verify catches it, so the promise verify returned is rejected.
ReadFileThrows ==
  /\ pc = "read"
  /\ ~canRead(CurrentTask.file)
  /\ pc' = "rejected"
  /\ UNCHANGED <<plan, fs, options, now, tasksToVerify, cursor, taskResults,
                 allIssues, result, runs, fsEvents, fsChanged, previous,
                 observed, probe, command, extraction,
                 estimate, execution>>

\* Another process changes a file while verify is suspended on I/O.
FsEvent ==
  /\ pc \in {"exists", "read"}
  /\ fsEvents < MaxFsEvents
  /\ \E f \in Files : \E s \in FsEventStates(f) :
        /\ s # fs[f]
        /\ fs' = [fs EXCEPT ![f] = s]
  /\ fsEvents' = fsEvents + 1
  /\ fsChanged' = TRUE
  /\ previous' = <<>>
  /\ UNCHANGED <<plan, options, now, pc, tasksToVerify, cursor, taskResults,
                 allIssues, result, runs, observed, probe, command, extraction,
                 estimate, execution>>

\* The command is run again on the same plan with the same filters; the
\* configuration's strictMode may have been edited in between.
VerifyAgain ==
  /\ pc \in {"done", "rejected"}
  /\ runs < MaxRuns
  /\ \E strict \in BOOLEAN : options' = [options EXCEPT !.strictMode = strict]
  /\ previous' = IF pc = "done" /\ ~fsChanged
                 THEN <<[options |-> options, result |-> result[1]]>>
                 ELSE <<>>
  /\ now' = now + 1
  /\ pc' = "idle"
  /\ tasksToVerify' = <<>>
  /\ cursor' = 1
  /\ taskResults' = <<>>
  /\ allIssues' = <<>>
  /\ result' = <<>>
  /\ observed' = <<>>
  /\ UNCHANGED <<plan, fs, runs, fsEvents, fsChanged, probe, command, extraction,
                 estimate, execution>>

Next ==
  \/ Verify
  \/ ExistsReturns
  \/ ReadFileReturns
  \/ ReadFileThrows
  \/ FsEvent
  \/ VerifyAgain

Spec == Init /\ [][Next]_vars

----------------------------------------------------------------------------
\* planfirst verify <plan-id> [--phase <number>] [--task <id>] [--report <path>]

\* What commander hands to the action for --phase <number>: the option is
\* declared without an argument parser, so the value is the argument's text.
CliPhaseOptions == {Undefined} \cup {String(n) : n \in 0..(MaxPhases + 1)}

\* What verifyCommand finds under .planfirst.
Setups == {"uninitialized", "config-unreadable", "plan-missing",
           "plan-unreadable", "ok"}

\* config.verification: absent, or an object with strictMode.
Verifications == {<<>>, <<FALSE>>, <<TRUE>>}

InitCli ==
  /\ plan \in Plans
  /\ fs \in FileSystems
  /\ options = [phase |-> Undefined, task |-> NoValue, strictMode |-> FALSE]
  /\ now = 1
  /\ pc = "idle"
  /\ tasksToVerify = <<>>
  /\ cursor = 1
  /\ taskResults = <<>>
  /\ allIssues = <<>>
  /\ result = <<>>
  /\ runs = 0
  /\ fsEvents = 0
  /\ fsChanged = FALSE
  /\ previous = <<>>
  /\ observed = <<>>
  /\ probe = NoProbe
  /\ extraction = NoExtraction
  /\ estimate = NoEstimate
  /\ execution = NoExecution
  /\ \E setup \in Setups, phase \in CliPhaseOptions, task \in TaskOptions,
        report \in BOOLEAN, verification \in Verifications :
        command = [pc |-> "start", setup |-> setup, phase |-> phase,
                   task |-> task, report |-> report,
                   verification |-> verification,
                   reportSaved |-> FALSE, exitCode |-> <<>>]

\* process.exit(code), or the process ending of itself with code 0.
Exit(code) == command' = [command EXCEPT !.pc = "exited", !.exitCode = <<code>>]

\* An exception leaves verifyCommand: the action's catch logs it and exits.
ExitOnThrow == Exit(1)

\* The options verifyCommand passes to Verifier.verify.
forwardedOptions ==
  [phase      |-> command.phase,
   task       |-> command.task,
   strictMode |-> IF command.verification = <<>> THEN FALSE
                  ELSE command.verification[1]]

\* verifyCommand from its entry to the first await inside Verifier.verify.
VerifyCommand ==
  /\ command.pc = "start"
  /\ pc = "idle"
  /\ IF command.setup \in {"uninitialized", "plan-missing"}
     THEN /\ Exit(1)
          /\ UNCHANGED <<plan, fs, options, now, pc, tasksToVerify, cursor,
                         taskResults, allIssues, result, runs, fsEvents,
                         fsChanged, previous, observed, probe, extraction,
                 estimate, execution>>
     ELSE IF command.setup \in {"config-unreadable", "plan-unreadable"}
     THEN /\ ExitOnThrow
          /\ UNCHANGED <<plan, fs, options, now, pc, tasksToVerify, cursor,
                         taskResults, allIssues, result, runs, fsEvents,
                         fsChanged, previous, observed, probe, extraction,
                 estimate, execution>>
     ELSE /\ BeginVerify(forwardedOptions)
          /\ command' = [command EXCEPT !.pc = "verifying"]

\* Treating a partial result as a failure too.
exitCodeOf_mutant(overallStatus) ==
  IF overallStatus = "pass" THEN 0 ELSE 1

\* The exit code verifyCommand chooses for a result.
exitCodeOf(overallStatus) ==
  IF overallStatus = "fail" \/ overallStatus = "error" THEN 1 ELSE 0

\* Verifier.verify returned: display the result, save the report if one
\* was asked for (the write may fail and throw), then exit by the status.
CommandReturns ==
  /\ command.pc = "verifying"
  /\ pc = "done"
  /\ \E written \in BOOLEAN :
       IF command.report /\ ~written
       THEN ExitOnThrow
       ELSE command' = [command EXCEPT
                          !.pc = "exited",
                          !.reportSaved = command.report,
                          !.exitCode = <<exitCodeOf(result[1].overallStatus)>>]
  /\ UNCHANGED <<plan, fs, options, now, pc, tasksToVerify, cursor,
                 taskResults, allIssues, result, runs, fsEvents, fsChanged,
                 previous, observed, probe, extraction,
                 estimate, execution>>

\* Verifier.verify rejected: verifyCommand's catch rethrows.
CommandRejects ==
  /\ command.pc = "verifying"
  /\ pc = "rejected"
  /\ ExitOnThrow
  /\ UNCHANGED <<plan, fs, options, now, pc, tasksToVerify, cursor,
                 taskResults, allIssues, result, runs, fsEvents, fsChanged,
                 previous, observed, probe, extraction,
                 estimate, execution>>

NextCli ==
  \/ VerifyCommand
  \/ ExistsReturns
  \/ ReadFileReturns
  \/ ReadFileThrows
  \/ FsEvent
  \/ CommandReturns
  \/ CommandRejects

SpecCli == InitCli /\ [][NextCli]_vars

----------------------------------------------------------------------------
\* calculateMatchPercentage on its own

\* Longest change list of a scored task.
MaxChanges == 2

\* "LOADER HELPER PARSECONFIG"
ContentUpper ==
  <<"L", "O", "A", "D", "E", "R", " ", "H", "E", "L", "P", "E", "R", " ", "P", "A", "R", "S", "E", "C", "O", "N", "F", "I", "G">>

ScoreDescriptions == {<<>>, DescNone, DescScenario, DescThree, DescEleven}
ScoreContents ==
  {<<>>, ContentNone, ContentOne, ContentTwo, ContentThree, ContentLower,
   ContentUpper, ContentTen, ContentExtra}
ScoreCodes == {<<>>, <<CodeLoader>>, <<CodeCamel>>}
ScoreChanges ==
  UNION { [1..n -> {Change(c) : c \in ScoreCodes}] : n \in 0..MaxChanges }

InitScore ==
  /\ plan = [id |-> "plan-1", phases |-> <<>>]
  /\ fs = [f \in Files |-> Absent]
  /\ options = [phase |-> Undefined, task |-> NoValue, strictMode |-> FALSE]
  /\ now = 1
  /\ pc = "off"
  /\ tasksToVerify = <<>>
  /\ cursor = 1
  /\ taskResults = <<>>
  /\ allIssues = <<>>
  /\ result = <<>>
  /\ runs = 0
  /\ fsEvents = 0
  /\ fsChanged = FALSE
  /\ previous = <<>>
  /\ observed = <<>>
  /\ command = NoCommand
  /\ extraction = NoExtraction
  /\ estimate = NoEstimate
  /\ execution = NoExecution
  /\ \E type \in {"create", "modify"}, description \in ScoreDescriptions,
        changes \in ScoreChanges, content \in ScoreContents :
        probe = [NoProbe EXCEPT
                   !.content = content,
                   !.task = Task(TaskKind(type, "a.ts", description, changes), 1)]

\* The file of the task exists with the probe's content and the task is
\* verified against it.
Score ==
  /\ ~probe.scored
  /\ probe' = [probe EXCEPT
       !.scored = TRUE,
       !.keywords = extractKeywords(probe.task.description),
       !.score = calculateMatchPercentage(probe.content, probe.task),
       !.status = verifyTask(probe.task, TRUE, probe.content, FALSE).status]
  /\ UNCHANGED <<plan, fs, options, now, pc, tasksToVerify, cursor,
                 taskResults, allIssues, result, runs, fsEvents, fsChanged,
                 previous, observed, command, extraction,
                 estimate, execution>>

NextScore == Score

SpecScore == InitScore /\ [][NextScore]_vars

----------------------------------------------------------------------------
\* Planner.parsePlanFromMarkdown on its own

\* Most lines of a plan document.
MaxLines == 3

\* "# Auth plan"
LineTitle ==
  <<"#", " ", "A", "u", "t", "h", " ", "p", "l", "a", "n">>
\* "## Phase 1: Setup"
LinePhaseOne ==
  <<"#", "#", " ", "P", "h", "a", "s", "e", " ", "1", ":", " ", "S", "e", "t", "u", "p">>
\* "## Testing"
LinePhaseTwo ==
  <<"#", "#", " ", "T", "e", "s", "t", "i", "n", "g">>
\* "### Notes"
LineSub ==
  <<"#", "#", "#", " ", "N", "o", "t", "e", "s">>
\* "Create `a.ts` first. Then update `b.ts`."
LineCreate ==
  <<"C", "r", "e", "a", "t", "e", " ", Backtick, "a", ".", "t", "s", Backtick, " ", "f", "i", "r", "s", "t", ".", " ", "T", "h", "e", "n", " ", "u", "p", "d", "a", "t", "e", " ", Backtick, "b", ".", "t", "s", Backtick, ".">>
\* "Edit `a.ts`. File: `a.ts` and `src/b.ts`"
LineDup ==
  <<"E", "d", "i", "t", " ", Backtick, "a", ".", "t", "s", Backtick, ".", " ", "F", "i", "l", "e", ":", " ", Backtick, "a", ".", "t", "s", Backtick, " ", "a", "n", "d", " ", Backtick, "s", "r", "c", "/", "b", ".", "t", "s", Backtick>>
\* "Write the tests"
LinePlain ==
  <<"W", "r", "i", "t", "e", " ", "t", "h", "e", " ", "t", "e", "s", "t", "s">>

PlanLines == {LineTitle, LinePhaseOne, LinePhaseTwo, LineSub, LineCreate,
              LineDup, LinePlain}

\* The lines of a document, each but the last followed by a line end.
RECURSIVE joinLines(_)
joinLines(lines) ==
  IF Len(lines) = 1 THEN lines[1]
  ELSE lines[1] \o <<"\n">> \o joinLines(Tail(lines))

Markdowns ==
  { joinLines(lines) : lines \in UNION { [1..n -> PlanLines] : n \in 1..MaxLines } }

Analyses == { [project |-> [dependencies |-> <<"chalk", "ora">>]] }

InitPlanner ==
  /\ plan = [id |-> "plan-1", phases |-> <<>>]
  /\ fs = [f \in Files |-> Absent]
  /\ options = [phase |-> Undefined, task |-> NoValue, strictMode |-> FALSE]
  /\ now = 1
  /\ pc = "off"
  /\ tasksToVerify = <<>>
  /\ cursor = 1
  /\ taskResults = <<>>
  /\ allIssues = <<>>
  /\ result = <<>>
  /\ runs = 0
  /\ fsEvents = 0
  /\ fsChanged = FALSE
  /\ previous = <<>>
  /\ observed = <<>>
  /\ probe = NoProbe
  /\ command = NoCommand
  /\ estimate = NoEstimate
  /\ execution = NoExecution
  /\ \E markdown \in Markdowns, description \in {DescNone},
        analysis \in Analyses :
        extraction = [NoExtraction EXCEPT
                        !.markdown = markdown,
                        !.description = description,
                        !.analysis = analysis]

\* Planner.parsePlanFromMarkdown is applied to the AI's answer; the plan of
\* the invocation before, on the same answer, is kept in earlier. Two
\* invocations are followed.
Parse ==
  /\ extraction.earlier = <<>>
  /\ extraction' = [extraction EXCEPT
       !.parsed = TRUE,
       !.earlier = extraction.plan,
       !.plan = <<parsePlanFromMarkdown(extraction.markdown,
                                        extraction.description,
                                        extraction.analysis, now)>>]
  /\ UNCHANGED <<plan, fs, options, now, pc, tasksToVerify, cursor,
                 taskResults, allIssues, result, runs, fsEvents, fsChanged,
                 previous, observed, probe, command,
                 estimate, execution>>

\* A millisecond passes between the two invocations.
Elapse ==
  /\ extraction.parsed
  /\ extraction.earlier = <<>>
  /\ now = extraction.plan[1].timestamp
  /\ now' = now + 1
  /\ UNCHANGED <<plan, fs, options, pc, tasksToVerify, cursor, taskResults,
                 allIssues, result, runs, fsEvents, fsChanged, previous,
                 observed, probe, command, extraction,
                 estimate, execution>>

NextPlanner == Parse \/ Elapse

SpecPlanner == InitPlanner /\ [][NextPlanner]_vars

----------------------------------------------------------------------------
\* Planner.extractTasks on sections that name a file with and without
\* backticks

\* Most lines of a section.
MaxSentences == 2

\* "Create `a.ts`"
SentenceCreateQuoted ==
  <<"C", "r", "e", "a", "t", "e", " ", Backtick, "a", ".", "t", "s", Backtick>>
\* "Delete `a.ts`"
SentenceDeleteQuoted ==
  <<"D", "e", "l", "e", "t", "e", " ", Backtick, "a", ".", "t", "s", Backtick>>
\* "Remove a.ts"
SentenceRemove ==
  <<"R", "e", "m", "o", "v", "e", " ", "a", ".", "t", "s">>
\* "Add a.ts as `a.ts`"
SentenceAdd ==
  <<"A", "d", "d", " ", "a", ".", "t", "s", " ", "a", "s", " ", Backtick, "a", ".", "t", "s", Backtick>>
\* "Create A.TS"
SentenceUpper ==
  <<"C", "r", "e", "a", "t", "e", " ", "A", ".", "T", "S">>
\* "## Next"
SentenceHeading ==
  <<"#", "#", " ", "N", "e", "x", "t">>
\* "Update `b.ts`"
SentenceOther ==
  <<"U", "p", "d", "a", "t", "e", " ", Backtick, "b", ".", "t", "s", Backtick>>

SectionLines ==
  {SentenceCreateQuoted, SentenceDeleteQuoted, SentenceRemove, SentenceAdd,
   SentenceUpper, SentenceHeading, SentenceOther}

Sections ==
  { joinLines(lines) :
      lines \in UNION { [1..n -> SectionLines] : n \in 1..MaxSentences } }

InitTasks ==
  /\ plan = [id |-> "plan-1", phases |-> <<>>]
  /\ fs = [f \in Files |-> Absent]
  /\ options = [phase |-> Undefined, task |-> NoValue, strictMode |-> FALSE]
  /\ now = 1
  /\ pc = "off"
  /\ tasksToVerify = <<>>
  /\ cursor = 1
  /\ taskResults = <<>>
  /\ allIssues = <<>>
  /\ result = <<>>
  /\ runs = 0
  /\ fsEvents = 0
  /\ fsChanged = FALSE
  /\ previous = <<>>
  /\ observed = <<>>
  /\ probe = NoProbe
  /\ command = NoCommand
  /\ estimate = NoEstimate
  /\ execution = NoExecution
  /\ \E markdown \in Sections, analysis \in Analyses :
        extraction = [NoExtraction EXCEPT
                        !.markdown = markdown,
                        !.description = DescNone,
                        !.analysis = analysis]

SpecTasks == InitTasks /\ [][NextPlanner]_vars

----------------------------------------------------------------------------
\* Planner.estimateComplexity and Planner.estimateTime on their own

\* Most phases and most files of a plan that is estimated.
MaxPhaseCount == 7
MaxFileCount == 12

\* Word counts about the two thresholds.
WordCounts ==
  {1} \cup { MediumWords + d : d \in -1..1 } \cup { HighWords + d : d \in -1..1 }

\* A document of n words: "w w ... w"
wordsDocument(n) ==
  [i \in 1..(2 * n - 1) |-> IF i % 2 = 1 THEN "w" ELSE " "]

InitEstimate ==
  /\ plan = [id |-> "plan-1", phases |-> <<>>]
  /\ fs = [f \in Files |-> Absent]
  /\ options = [phase |-> Undefined, task |-> NoValue, strictMode |-> FALSE]
  /\ now = 1
  /\ pc = "off"
  /\ tasksToVerify = <<>>
  /\ cursor = 1
  /\ taskResults = <<>>
  /\ allIssues = <<>>
  /\ result = <<>>
  /\ runs = 0
  /\ fsEvents = 0
  /\ fsChanged = FALSE
  /\ previous = <<>>
  /\ observed = <<>>
  /\ probe = NoProbe
  /\ command = NoCommand
  /\ extraction = NoExtraction
  /\ execution = NoExecution
  /\ \E wordCount \in WordCounts, phaseCount \in 1..MaxPhaseCount,
        fileCount \in 0..MaxFileCount :
        estimate = [NoEstimate EXCEPT
                      !.wordCount = wordCount,
                      !.phaseCount = phaseCount,
                      !.fileCount = fileCount]

\* parsePlanFromMarkdown estimates a document of wordCount words in which
\* it found phaseCount phases and fileCount files.
Estimate ==
  /\ ~estimate.estimated
  /\ estimate' =
       Only({ [estimate EXCEPT
                 !.estimated = TRUE,
                 !.complexity = complexity,
                 !.time = estimateTime(complexity, estimate.phaseCount)] :
              complexity \in {estimateComplexity(wordsDocument(estimate.wordCount),
                                                 estimate.phaseCount,
                                                 estimate.fileCount)} })
  /\ UNCHANGED <<plan, fs, options, now, pc, tasksToVerify, cursor,
                 taskResults, allIssues, result, runs, fsEvents, fsChanged,
                 previous, observed, probe, command, extraction, execution>>

NextEstimate == Estimate

SpecEstimate == InitEstimate /\ [][NextEstimate]_vars

----------------------------------------------------------------------------
\* Phaser.getExecutablePhases and the execution of a plan's phases

\* phases.find(p => p.id === depId)?.status === 'completed'
dependencyMet(phases, depId) ==
  LET found == { i \in DOMAIN phases : phases[i].id = depId }
  IN  found # {} /\ phases[Least(found)].status = "completed"

getExecutablePhases_mutant(phases) ==
  SelectSeq(phases, LAMBDA phase :
    /\ phase.status = "pending"
    /\ \A n \in DOMAIN phase.dependencies :
         LET found == { i \in DOMAIN phases : phases[i].id = phase.dependencies[n] }
         IN  found = {} \/ phases[Least(found)].status \in {"completed", "failed"})

getExecutablePhases(phases) ==
  SelectSeq(phases, LAMBDA phase :
    /\ phase.status = "pending"
    /\ \A n \in DOMAIN phase.dependencies :
         dependencyMet(phases, phase.dependencies[n]))

PhaseStatuses == {"pending", "in-progress", "completed", "failed"}

\* Most phases of a plan the extractor built, and of a plan built otherwise.
MaxChain  == 4
MaxListed == 2

\* The phases the extractor builds from a document of n headings.
ExtractedChain(n) == extractPhases(joinLines([k \in 1..n |-> LinePhaseTwo]))

\* Dependency lists of a phase of a plan of n phases that the extractor did
\* not build: phases of the plan, or a phase the plan does not have.
ListedDependencies(n) ==
  {<<>>, << <<"phase-", n + 1>> >>}
    \cup { << <<"phase-", j>> >> : j \in 1..n }
    \cup { << <<"phase-", j>>, <<"phase-", n + 1 - j>> >> : j \in 1..n }

ListedPhases ==
  UNION { [1..n -> [dependencies : ListedDependencies(n), status : PhaseStatuses]] :
          n \in 1..MaxListed }

InitPhaser ==
  /\ plan = [id |-> "plan-1", phases |-> <<>>]
  /\ fs = [f \in Files |-> Absent]
  /\ options = [phase |-> Undefined, task |-> NoValue, strictMode |-> FALSE]
  /\ now = 1
  /\ pc = "off"
  /\ tasksToVerify = <<>>
  /\ cursor = 1
  /\ taskResults = <<>>
  /\ allIssues = <<>>
  /\ result = <<>>
  /\ runs = 0
  /\ fsEvents = 0
  /\ fsChanged = FALSE
  /\ previous = <<>>
  /\ observed = <<>>
  /\ probe = NoProbe
  /\ command = NoCommand
  /\ extraction = NoExtraction
  /\ estimate = NoEstimate
  /\ \/ \E n \in 1..MaxChain :
          execution = [phases |-> ExtractedChain(n), chain |-> TRUE]
     \/ \E listed \in ListedPhases :
          execution =
            [phases |-> [k \in DOMAIN listed |->
                          [id |-> <<"phase-", k>>, order |-> k,
                           dependencies |-> listed[k].dependencies,
                           status |-> listed[k].status]],
             chain |-> FALSE]

\* The phase's status is set.
Marked(k, status) ==
  /\ execution' = [execution EXCEPT !.phases[k].status = status]
  /\ UNCHANGED <<plan, fs, options, now, pc, tasksToVerify, cursor,
                 taskResults, allIssues, result, runs, fsEvents, fsChanged,
                 previous, observed, probe, command, extraction, estimate>>

\* A phase that getExecutablePhases returns is started.
StartPhase ==
  \E phase \in Range(getExecutablePhases(execution.phases)) :
    \E k \in DOMAIN execution.phases :
      /\ execution.phases[k] = phase
      /\ Marked(k, "in-progress")

\* A started phase ends, completed or failed.
CompletePhase ==
  \E k \in DOMAIN execution.phases :
    /\ execution.phases[k].status = "in-progress"
    /\ Marked(k, "completed")

FailPhase ==
  \E k \in DOMAIN execution.phases :
    /\ execution.phases[k].status = "in-progress"
    /\ Marked(k, "failed")

NextPhaser == StartPhase \/ CompletePhase \/ FailPhase

SpecPhaser == InitPhaser /\ [][NextPhaser]_vars

----------------------------------------------------------------------------
\* Properties

\* The task whose result is taskResults[i].
SelectedTask(i) == TaskAt(plan, tasksToVerify[i])

OneIssue(issues, severity, type) ==
  /\ Len(issues) = 1
  /\ issues[1].severity = severity
  /\ issues[1].type = type

\* C1: when a create or modify task's file passes the existence check and
\* the read that follows fails, that task's result has status 'error' and
\* verify still returns a result with one TaskVerification per selected task.
\* (pc = "rejected" is exactly the state after such a failed read, with
\* cursor at the task whose read failed.)
C1_ReadFailureIsolated ==
  pc = "rejected" =>
    /\ result # <<>>
    /\ Len(result[1].taskResults) = Len(tasksToVerify)
    /\ result[1].taskResults[cursor].status = "error"

\* C2: overallStatus is 'fail' if criticalIssues > 0 or more than half of
\* the tasks are missing, else 'partial' if any task is partial or missing,
\* else 'pass'; 3 pass + 1 fail of 4 without a critical issue is 'partial',
\* and 3 fail of 4 is 'fail'.
C2_OverallStatus ==
  result # <<>> =>
    LET s == result[1].summary
        status == result[1].overallStatus
        majorityMissing == s.tasksMissing > s.totalTasks - s.tasksMissing
    IN  /\ (s.criticalIssues > 0 \/ majorityMissing) => status = "fail"
        /\ ( /\ ~(s.criticalIssues > 0 \/ majorityMissing)
             /\ (s.tasksPartial > 0 \/ s.tasksMissing > 0) )
              => status = "partial"
        /\ ( /\ ~(s.criticalIssues > 0 \/ majorityMissing)
             /\ ~(s.tasksPartial > 0 \/ s.tasksMissing > 0) )
              => status = "pass"
        /\ ( /\ s.totalTasks = 4 /\ s.tasksCompleted = 3
             /\ s.tasksMissing = 1 /\ s.criticalIssues = 0 )
              => status = "partial"
        /\ (s.totalTasks = 4 /\ s.tasksMissing = 3) => status = "fail"

\* A run over 4 tasks, 3 'pass' and 1 'fail', no critical issue: 'partial'.
C2_Witness ==
  /\ result # <<>>
  /\ result[1].summary.totalTasks = 4
  /\ result[1].summary.tasksCompleted = 3
  /\ result[1].summary.tasksMissing = 1
  /\ result[1].summary.criticalIssues = 0
  /\ result[1].overallStatus = "partial"

\* C3: a 'create' task whose file is absent is 'fail' at 0 with exactly one
\* missing-implementation error; with the file present, m >= 80 is 'pass'
\* with no issue, 50 <= m < 80 is 'partial' with exactly one
\* incorrect-implementation warning, m < 50 is 'fail' with exactly one
\* incorrect-implementation error.
C3_CreateVerdict ==
  \A i \in DOMAIN taskResults :
    LET r == taskResults[i]
        m == r.matchPercentage
    IN  SelectedTask(i).type = "create" =>
          IF ~observed[i].exists
          THEN /\ r.status = "fail"
               /\ m = 0
               /\ OneIssue(r.issues, "error", "missing-implementation")
          ELSE /\ observed[i].read
               /\ m >= 80 * Scale => r.status = "pass" /\ r.issues = <<>>
               /\ (m >= 50 * Scale /\ m < 80 * Scale) =>
                    /\ r.status = "partial"
                    /\ OneIssue(r.issues, "warning", "incorrect-implementation")
               /\ m < 50 * Scale =>
                    /\ r.status = "fail"
                    /\ OneIssue(r.issues, "error", "incorrect-implementation")

\* A present file scored 70 against a create task: 'partial'; and in the
\* same run a create task that found its file absent.
C3_Witness ==
  /\ \E i \in DOMAIN taskResults :
       /\ SelectedTask(i).type = "create"
       /\ observed[i].exists
       /\ taskResults[i].matchPercentage = 70 * Scale
       /\ taskResults[i].status = "partial"
  /\ \E i \in DOMAIN taskResults :
       /\ SelectedTask(i).type = "create"
       /\ ~observed[i].exists
       /\ taskResults[i].status = "fail"

\* C4: a 'modify' task whose file is absent is 'fail' at 0 with one
\* missing-implementation error; with the file present, m >= 70 is 'pass',
\* 40 <= m < 70 is 'partial' with one incorrect-implementation warning,
\* m < 40 is 'fail' with one missing-implementation error.
C4_ModifyVerdict ==
  \A i \in DOMAIN taskResults :
    LET r == taskResults[i]
        m == r.matchPercentage
    IN  SelectedTask(i).type = "modify" =>
          IF ~observed[i].exists
          THEN /\ r.status = "fail"
               /\ m = 0
               /\ OneIssue(r.issues, "error", "missing-implementation")
          ELSE /\ observed[i].read
               /\ m >= 70 * Scale => r.status = "pass"
               /\ (m >= 40 * Scale /\ m < 70 * Scale) =>
                    /\ r.status = "partial"
                    /\ OneIssue(r.issues, "warning", "incorrect-implementation")
               /\ m < 40 * Scale =>
                    /\ r.status = "fail"
                    /\ OneIssue(r.issues, "error", "missing-implementation")

\* A present file scored 70 against a modify task: 'pass'.
C4_Witness ==
  \E i \in DOMAIN taskResults :
    /\ SelectedTask(i).type = "modify"
    /\ observed[i].exists
    /\ taskResults[i].matchPercentage = 70 * Scale
    /\ taskResults[i].status = "pass"

\* C5: a 'delete' task whose file still exists is 'fail' at 0 with exactly
\* one extra-changes error; with the file absent it is 'pass' at 100 with no
\* issue; the file's content is never read for a delete task.
C5_DeleteVerdict ==
  /\ \A i \in DOMAIN taskResults :
       LET r == taskResults[i]
       IN  SelectedTask(i).type = "delete" =>
             /\ ~observed[i].read
             /\ IF observed[i].exists
                THEN /\ r.status = "fail"
                     /\ r.matchPercentage = 0
                     /\ OneIssue(r.issues, "error", "extra-changes")
                ELSE /\ r.status = "pass"
                     /\ r.matchPercentage = 100 * Scale
                     /\ r.issues = <<>>
  /\ pc = "read" => CurrentTask.type # "delete"

\* A delete task whose file exists but cannot be read has its verdict.
C5_Witness ==
  \E i \in DOMAIN taskResults :
    /\ SelectedTask(i).type = "delete"
    /\ observed[i].exists
    /\ fs[SelectedTask(i).file].present
    /\ ~fs[SelectedTask(i).file].readable
    /\ taskResults[i].status = "fail"

\* C6: a 'rename' or 'move' task resolves to 'fail' with a generic issue
\* (a non-empty issues list), whether or not the file exists.
C6_UnsupportedTypeHasIssue ==
  \A i \in DOMAIN taskResults :
    SelectedTask(i).type \in {"rename", "move"} =>
      /\ taskResults[i].status = "fail"
      /\ Len(taskResults[i].issues) > 0

\* C7: the match percentage is clamp[0,100] of
\* 50 + 30 * keywordsFound / max(keywordsTotal, 1)
\*    + 20 * changesMatched / changesTotal (last term only with changes),
\* over at most 10 keywords; a create task without changes whose keywords
\* (at least one) are all in the file scores exactly 80 and is 'pass'; every
\* match percentage is within 0..100.
C7_MatchPercentage ==
  probe.scored =>
    LET k == Len(probe.keywords)
        f == Cardinality({ i \in 1..k :
               includes(toLowerCase(probe.content), probe.keywords[i]) })
        n == Len(probe.task.changes)
        c == Cardinality({ i \in 1..n :
               /\ probe.task.changes[i].code # <<>>
               /\ probe.task.changes[i].code[1] # <<>>
               /\ \E w \in Range(extractKeywords(probe.task.changes[i].code[1])) :
                     includes(probe.content, w) })
        K == Max(k, 1)
        N == Max(n, 1)
        \* the formula's value times K * N, in percent
        raw == 50 * K * N + 30 * f * N + (IF n > 0 THEN 20 * c * K ELSE 0)
        clamped == Min(100 * K * N, Max(0, raw))
    IN  /\ k <= 10
        /\ probe.score * K * N = clamped * Scale
        /\ probe.score >= 0 /\ probe.score <= 100 * Scale
        /\ (probe.task.type = "create" /\ n = 0 /\ k >= 1 /\ f = k) =>
              probe.score = 80 * Scale /\ probe.status = "pass"

\* A description with eleven qualifying words against a file that holds the
\* first ten of them and not the eleventh: 80, 'pass'.
C7_Witness ==
  /\ probe.scored
  /\ probe.task.type = "create"
  /\ probe.task.description = DescEleven
  /\ probe.task.changes = <<>>
  /\ probe.content = ContentTen
  /\ probe.score = 80 * Scale
  /\ probe.status = "pass"

\* What C8 compares of two results: everything but the timestamp.
SameOutcome(r1, r2) ==
  /\ r1.taskResults = r2.taskResults
  /\ r1.summary = r2.summary
  /\ r1.overallStatus = r2.overallStatus
  /\ r1.recommendations = r2.recommendations

\* C8: on the same plan, file system and phase/task filter, verify with
\* strictMode = true returns the same taskResults, summary, overallStatus
\* and recommendations as with strictMode = false.
C8_StrictModeNoOp ==
  ( /\ pc = "done"
    /\ previous # <<>>
    /\ ~fsChanged
    /\ previous[1].options.strictMode # options.strictMode )
    => SameOutcome(previous[1].result, result[1])

\* A strict run after a non-strict one, over a task whose file exists (the
\* strict-mode block ran) and was scored.
C8_Witness ==
  /\ pc = "done"
  /\ previous # <<>>
  /\ ~fsChanged
  /\ options.strictMode
  /\ ~previous[1].options.strictMode
  /\ \E i \in DOMAIN taskResults : observed[i].exists /\ observed[i].read
  /\ \E i \in DOMAIN taskResults :
       observed[i].exists /\ SelectedTask(i).type = "delete"

C10_OutOfRangePhaseSelectsNothing ==
  ( /\ pc \in {"exists", "read", "done", "rejected"}
    /\ options.phase.type = "number"
    /\ \A p \in DOMAIN plan.phases : plan.phases[p].order # options.phase.num )
    => /\ tasksToVerify = <<>>
       /\ pc = "done"
       /\ result[1].summary.totalTasks = 0
       /\ result[1].taskResults = <<>>


\* C12: tasks are verified one after another in selection order: the
\* results so far are those of the first tasks selected, taskResults[i]
\* carries the id and file of the i-th selected task, and the returned
\* result has one entry per selected task with summary.totalTasks their
\* number.
C12_ResultsInSelectionOrder ==
  pc \in {"exists", "read", "done", "rejected"} =>
    /\ Len(taskResults) = cursor - 1
    /\ \A i \in DOMAIN taskResults :
         /\ taskResults[i].taskId = SelectedTask(i).id
         /\ taskResults[i].file = SelectedTask(i).file
    /\ pc = "done" =>
         /\ result[1].taskResults = taskResults
         /\ Len(result[1].taskResults) = Len(tasksToVerify)
         /\ result[1].summary.totalTasks = Len(tasksToVerify)

\* A finished run over four tasks of two phases, their files not all the
\* same.
C12_Witness ==
  /\ pc = "done"
  /\ Len(tasksToVerify) = 4
  /\ Len(result[1].taskResults) = 4
  /\ result[1].taskResults[1].file # result[1].taskResults[2].file
  /\ tasksToVerify[3].phase = 2

\* Positions <<i, j>> of the issues of a result list.
IssuePositions(results) ==
  UNION { { <<i, j>> : j \in DOMAIN results[i].issues } : i \in DOMAIN results }

\* C13: the summary is a function of taskResults: the three task counters
\* count the results of status pass, partial and fail, criticalIssues
\* counts the issues of severity critical or error over all results and
\* warnings those of severity warning.
C13_SummaryFromResults ==
  pc = "done" =>
    LET r == result[1].taskResults
        s == result[1].summary
        statusCount(st) == Cardinality({ i \in DOMAIN r : r[i].status = st })
        severityCount(sevs) ==
          Cardinality({ p \in IssuePositions(r) :
                          r[p[1]].issues[p[2]].severity \in sevs })
    IN  /\ s.tasksCompleted = statusCount("pass")
        /\ s.tasksPartial = statusCount("partial")
        /\ s.tasksMissing = statusCount("fail")
        /\ s.criticalIssues = severityCount({"critical", "error"})
        /\ s.warnings = severityCount({"warning"})

\* Every counter of the summary is positive.
C13_Witness ==
  /\ pc = "done"
  /\ result[1].summary.tasksCompleted > 0
  /\ result[1].summary.tasksPartial > 0
  /\ result[1].summary.tasksMissing > 0
  /\ result[1].summary.criticalIssues > 0
  /\ result[1].summary.warnings > 0


\* C14: the recommendations are, in this order, one line on the missing
\* tasks when tasksMissing > 0, one on the partial tasks when
\* tasksPartial > 0, one on critical issues when criticalIssues > 0, and one
\* 'Review implementation of <file>' per failed task, in result order, only
\* when one to three tasks failed; when none of these applies the list is
\* the one closing remark.  The list has from one to six lines.
C14_Recommendations ==
  pc = "done" =>
    LET r    == result[1].taskResults
        s    == result[1].summary
        recs == result[1].recommendations
        failed == SelectSeq(r, LAMBDA t : t.status = "fail")
        nM == IF s.tasksMissing > 0 THEN 1 ELSE 0
        nP == IF s.tasksPartial > 0 THEN 1 ELSE 0
        nC == IF s.criticalIssues > 0 THEN 1 ELSE 0
        nR == IF Len(failed) \in 1..3 THEN Len(failed) ELSE 0
    IN  /\ Len(recs) \in 1..6
        /\ IF nM + nP + nC + nR = 0
           THEN recs = << <<"Implementation looks good! Consider code review before merging">> >>
           ELSE /\ Len(recs) = nM + nP + nC + nR
                /\ nM = 1 => recs[1][1] = "Complete the missing tasks"
                             /\ recs[1][2] = s.tasksMissing
                /\ nP = 1 => recs[nM + 1][1] =
                               "Review and improve the partially implemented tasks"
                             /\ recs[nM + 1][2] = s.tasksPartial
                /\ nC = 1 => recs[nM + nP + 1] =
                               <<"Address critical issues before proceeding">>
                /\ \A i \in 1..nR :
                     recs[nM + nP + nC + i] =
                       <<"Review implementation of", failed[i].file>>

\* All six lines at once: a partial task, three failed ones, a critical
\* issue.
C14_Witness ==
  /\ pc = "done"
  /\ Len(result[1].recommendations) = 6
  /\ result[1].summary.tasksPartial > 0
  /\ result[1].summary.tasksMissing = 3
  /\ result[1].summary.criticalIssues > 0

\* C16: a second call of verify with the same plan and the same options, on
\* a directory no one changed in between, returns the same taskResults,
\* summary, overallStatus and recommendations, and the same planId and
\* phaseId; the timestamp alone may differ.
C16_Idempotent ==
  ( /\ pc = "done"
    /\ previous # <<>>
    /\ ~fsChanged
    /\ previous[1].options = options )
    => /\ SameOutcome(previous[1].result, result[1])
       /\ previous[1].result.planId = result[1].planId
       /\ previous[1].result.phaseId = result[1].phaseId

\* A repeated call with unchanged options that read a file, found issues,
\* and was stamped later than the first.
C16_Witness ==
  /\ pc = "done"
  /\ previous # <<>>
  /\ ~fsChanged
  /\ previous[1].options = options
  /\ previous[1].result.timestamp # result[1].timestamp
  /\ Len(taskResults) >= 2
  /\ \E i \in DOMAIN taskResults : observed[i].read
  /\ allIssues # <<>>


\* C11: planfirst verify <plan-id> --phase k, on a plan with a phase of
\* order k, verifies that phase's tasks: the phase value forwarded to
\* Verifier.verify finds the phase, and summary.totalTasks is the phase's
\* task count, which is at least 1.
C11_CliPhaseVerifiesPhase ==
  \A p \in DOMAIN plan.phases :
    ( /\ command.pc \in {"verifying", "exited"}
      /\ pc = "done"
      /\ command.phase = String(plan.phases[p].order)
      /\ command.task = NoValue )
      => /\ findPhase(plan, options) = p
         /\ result[1].summary.totalTasks = Len(plan.phases[p].tasks)
         /\ result[1].summary.totalTasks >= 1

\* C15 as stated: once a result is there, the exit code is non-zero when
\* overallStatus is fail or error and zero when it is pass or partial.
C15_ExitCodeByStatus ==
  (command.pc = "exited" /\ result # <<>>) =>
    IF result[1].overallStatus \in {"fail", "error"}
    THEN command.exitCode[1] # 0
    ELSE command.exitCode[1] = 0

\* C15, amended: the exit code is non-zero when overallStatus is fail or
\* error; when it is pass or partial the exit code is zero unless a report
\* was asked for and could not be written, which exits non-zero.
C15_ExitCodeByStatusAndReport ==
  (command.pc = "exited" /\ result # <<>>) =>
    IF result[1].overallStatus \in {"fail", "error"}
    THEN command.exitCode[1] # 0
    ELSE command.exitCode[1] = 0 <=> (command.report => command.reportSaved)

\* A partial result whose report was saved exits with 0.
C15_Witness ==
  /\ command.pc = "exited"
  /\ result # <<>>
  /\ result[1].overallStatus = "partial"
  /\ command.report
  /\ command.reportSaved
  /\ command.exitCode = <<0>>


\* The plan parsePlanFromMarkdown returned.
ParsedPlan == extraction.plan[1]

\* The second-level headings of a document: the positions of the lines
\* that open with exactly two number signs and a blank.
SecondLevelHeadings(text) ==
  { i \in DOMAIN text :
      /\ lineStart(text, i)
      /\ startsWithAt(text, i, <<"#", "#">>)
      /\ i + 2 <= Len(text) /\ text[i + 2] \in {" ", "\t"} }

\* C17: a document without a second-level heading yields exactly one
\* phase, with id phase-1, order 1, name Implementation, no dependencies,
\* and at least one task, extracted from the whole document.
C17_NoHeadingOnePhase ==
  (extraction.parsed /\ SecondLevelHeadings(extraction.markdown) = {}) =>
    /\ Len(ParsedPlan.phases) = 1
    /\ ParsedPlan.phases[1].id = <<"phase-", 1>>
    /\ ParsedPlan.phases[1].order = 1
    /\ ParsedPlan.phases[1].name = <<"I", "m", "p", "l", "e", "m", "e", "n", "t", "a", "t", "i", "o", "n">>
    /\ ParsedPlan.phases[1].dependencies = <<>>
    /\ Len(ParsedPlan.phases[1].tasks) >= 1
    /\ ParsedPlan.phases[1].tasks = extractTasks(extraction.markdown)

\* The k-th smallest element of a set of numbers.
Kth(S, k) == CHOOSE x \in S : Cardinality({ y \in S : y < x }) = k - 1

\* C18: a document with N >= 1 second-level headings yields exactly N
\* phases in document order: the k-th has id phase-k and order k and is cut
\* from the text at the k-th heading; the first has no dependencies and
\* the k-th, k > 1, depends on phase-(k-1) alone.
C18_OnePhasePerHeading ==
  (extraction.parsed /\ SecondLevelHeadings(extraction.markdown) # {}) =>
    LET headings == SecondLevelHeadings(extraction.markdown)
        phases   == ParsedPlan.phases
    IN  /\ Len(phases) = Cardinality(headings)
        /\ \A k \in DOMAIN phases :
             /\ phases[k].id = <<"phase-", k>>
             /\ phases[k].order = k
             /\ startsWithAt(extraction.markdown, Kth(headings, k),
                             phases[k].description)
             /\ phases[k].dependencies =
                  IF k = 1 THEN <<>> ELSE << <<"phase-", k - 1>> >>

\* C19: within every extracted phase the file values of the tasks are
\* pairwise distinct.
C19_DistinctFiles ==
  extraction.parsed =>
    \A k \in DOMAIN ParsedPlan.phases :
      \A i, j \in DOMAIN ParsedPlan.phases[k].tasks :
        i # j => ParsedPlan.phases[k].tasks[i].file #
                 ParsedPlan.phases[k].tasks[j].file

\* A phase whose text names a file in several backtick spans and under all
\* three patterns, and has fewer tasks than spans.
C19_Witness ==
  /\ extraction.parsed
  /\ \E k \in DOMAIN ParsedPlan.phases :
       LET content == ParsedPlan.phases[k].description
       IN  /\ Len(content) < PhaseDescriptionLimit
           /\ Len(fileMatches(1, content)) >= 1
           /\ Len(fileMatches(2, content)) >= 1
           /\ Len(fileMatches(3, content)) > Len(ParsedPlan.phases[k].tasks)
           /\ Len(ParsedPlan.phases[k].tasks) >= 2

\* The decimal numeral of a natural number.
RECURSIVE Decimal(_)
Decimal(n) ==
  LET digit(d) == CHOOSE c \in Digits :
                    c = <<"0", "1", "2", "3", "4", "5", "6", "7", "8", "9">>[d + 1]
  IN  IF n < 10 THEN <<digit(n)>>
      ELSE Decimal(n \div 10) \o <<digit(n % 10)>>

\* C20: the n-th task of a phase has the id task-<n>, n in decimal,
\* counting from 1; the placeholder task of a phase without a file has the
\* id task-1.
C20_TaskIdsNumbered ==
  extraction.parsed =>
    \A k \in DOMAIN ParsedPlan.phases :
      \A n \in DOMAIN ParsedPlan.phases[k].tasks :
        ParsedPlan.phases[k].tasks[n].id = TaskPrefix \o Decimal(n)

\* C21: the returned plan has status 'ready' when phases were extracted
\* from the markdown, and status 'draft' when only the synthetic fallback
\* phase is present.
C21_StatusByExtraction ==
  extraction.parsed =>
    ParsedPlan.status =
      IF phaseMatches(extraction.markdown) # <<>> THEN "ready" ELSE "draft"

\* The plan the invocation before returned.
EarlierPlan == extraction.earlier[1]

\* C22: two invocations of parsePlanFromMarkdown with the same markdown and
\* the same description, made at different times, return plans with the
\* same id, title, phases, metadata and status.
C22_Deterministic ==
  (extraction.earlier # <<>> /\ ParsedPlan.timestamp # EarlierPlan.timestamp) =>
    /\ ParsedPlan.id = EarlierPlan.id
    /\ ParsedPlan.title = EarlierPlan.title
    /\ ParsedPlan.phases = EarlierPlan.phases
    /\ ParsedPlan.metadata = EarlierPlan.metadata
    /\ ParsedPlan.status = EarlierPlan.status

\* low < medium < high
Tier(complexity) ==
  CASE complexity = "low" -> 1
    [] complexity = "medium" -> 2
    [] complexity = "high" -> 3

\* C23: complexity is 'high' if fileCount > 10 or phaseCount > 5 or
\* wordCount > 2000, otherwise 'medium' if fileCount > 5 or phaseCount > 2
\* or wordCount > 1000, otherwise 'low'; and increasing one of the three
\* counts, the others fixed, never lowers the tier.
C23_ComplexityTiers ==
  estimate.estimated =>
    LET w == estimate.wordCount
        p == estimate.phaseCount
        f == estimate.fileCount
        high   == f > 10 \/ p > 5 \/ w > 2000
        medium == f > 5 \/ p > 2 \/ w > 1000
    IN  /\ estimate.complexity =
             IF high THEN "high" ELSE IF medium THEN "medium" ELSE "low"
        /\ \A w2 \in WordCounts :
             w2 >= w => Tier(estimateComplexity(wordsDocument(w2), p, f)) >=
                        Tier(estimate.complexity)
        /\ \A p2 \in p..(MaxPhaseCount + 1) :
             Tier(complexityOf(w, p2, f)) >= Tier(estimate.complexity)
        /\ \A f2 \in f..(MaxFileCount + 1) :
             Tier(complexityOf(w, p, f2)) >= Tier(estimate.complexity)

\* Exactly 10 files, 5 phases and 2000 words: not 'high'.
C23_Witness ==
  /\ estimate.estimated
  /\ estimate.fileCount = 10
  /\ estimate.phaseCount = 5
  /\ estimate.wordCount = 2000
  /\ estimate.complexity = "medium"

\* C24: the estimated time is hours = base(complexity) * phaseCount with
\* base 2, 6, 16 for low, medium, high, rendered as '<hours> hours' if
\* hours < 8, '<ceil(hours/8)> days' if 8 <= hours < 40 and
\* '<ceil(hours/40)> weeks' if hours >= 40.
C24_EstimatedTime ==
  estimate.estimated =>
    LET base  == CASE estimate.complexity = "low" -> 2
                   [] estimate.complexity = "medium" -> 6
                   [] estimate.complexity = "high" -> 16
        hours == base * estimate.phaseCount
        ceil(b) == CHOOSE n \in 0..hours : n * b >= hours /\ (n - 1) * b < hours
    IN  estimate.time =
          IF hours < 8 THEN <<hours, "hours">>
          ELSE IF hours < 40 THEN <<ceil(8), "days">>
          ELSE <<ceil(40), "weeks">>

\* 48 hours, rendered as 2 weeks; the division is not exact.
C24_Witness ==
  /\ estimate.estimated
  /\ estimate.complexity = "high"
  /\ estimate.phaseCount = 3
  /\ estimate.time = <<2, "weeks">>

\* The first line of a text.
FirstLine(text) ==
  SubSeq(text, 1, Least({ j \in 1..(Len(text) + 1) :
                            j = Len(text) + 1 \/ text[j] = "\n" }) - 1)

\* The name a heading line '## ...' gives: what follows 'Phase <N>:' or
\* 'Phase <N> ' when the heading has that prefix, else its full text.
HeadingName(line) ==
  LET q == runEnd(line, 3, Whitespace) + 1
      r == runEnd(line, q + Len(PhaseWord), Whitespace)
      d == runEnd(line, r + 1, Digits)
      c == runEnd(line, d + 1, {":"} \cup Whitespace)
      prefixed == /\ startsWithAt(line, q, PhaseWord)
                  /\ r >= q + Len(PhaseWord) /\ d >= r + 1 /\ c >= d + 1
                  /\ c < Len(line)
  IN  trim(SubSeq(line, IF prefixed THEN c + 1 ELSE q, Len(line)))

\* C25: the name of each extracted phase is the text of its heading line
\* only, without the 'Phase <N>' prefix if it has one; the body of the
\* section is never part of the name.
C25_NameIsHeadingText ==
  (extraction.parsed /\ phaseMatches(extraction.markdown) # <<>>) =>
    \A k \in DOMAIN ParsedPlan.phases :
      /\ ~includes(ParsedPlan.phases[k].name, <<"\n">>)
      /\ ParsedPlan.phases[k].name =
           HeadingName(FirstLine(ParsedPlan.phases[k].description))

\* The positions of the phases getExecutablePhases returns.
Executable ==
  { k \in DOMAIN execution.phases :
      execution.phases[k] \in Range(getExecutablePhases(execution.phases)) }

\* The phase has been started.
Started(k) == execution.phases[k].status # "pending"

\* C26: getExecutablePhases returns exactly the pending phases all of whose
\* dependency ids name a completed phase.  In an extractor-built chain
\* whose phases are started only when getExecutablePhases returns them, at
\* most one phase is executable, phase k is not started before phase k-1
\* is completed, and no phase after a failed one is executable.
C26_ExecutablePhases ==
  LET phases == execution.phases
  IN  /\ \A k \in DOMAIN phases :
           k \in Executable <=>
             /\ phases[k].status = "pending"
             /\ \A d \in Range(phases[k].dependencies) :
                  \E j \in DOMAIN phases :
                    phases[j].id = d /\ phases[j].status = "completed"
      /\ \A e \in Range(getExecutablePhases(phases)) : e \in Range(phases)
      /\ execution.chain =>
           /\ Cardinality(Executable) <= 1
           /\ \A k \in DOMAIN phases :
                (k > 1 /\ Started(k)) => phases[k - 1].status = "completed"
           /\ \A j, k \in DOMAIN phases :
                (j < k /\ phases[j].status = "failed") => k \notin Executable

\* A chain whose first phase is completed and whose second has failed: the
\* third is pending and not executable.
C26_Witness ==
  /\ execution.chain
  /\ Len(execution.phases) >= 3
  /\ execution.phases[1].status = "completed"
  /\ execution.phases[2].status = "failed"
  /\ execution.phases[3].status = "pending"
  /\ Executable = {}

\* The text extractTasks was given for phase k: the section of the phase,
\* or the whole document for the fallback phase.
SectionText(k) ==
  IF phaseMatches(extraction.markdown) = <<>> THEN extraction.markdown
  ELSE ParsedPlan.phases[k].description

\* The tasks extractTasks made for a file it found, as <<phase, task>>.
FileTasks ==
  { kn \in UNION { { <<k, n>> : n \in DOMAIN ParsedPlan.phases[k].tasks } :
                   k \in DOMAIN ParsedPlan.phases } :
      ParsedPlan.phases[kn[1]].tasks[kn[2]] # PlaceholderTask }

\* The type the keywords give: create, new, add before delete, remove; the
\* keyword, one blank and the path, in any letter case.
KeywordType(section, file) ==
  LET follows(keyword) ==
        includes(toLowerCase(section), keyword \o <<" ">> \o toLowerCase(file))
  IN  IF \/ follows(<<"c", "r", "e", "a", "t", "e">>)
         \/ follows(<<"n", "e", "w">>)
         \/ follows(<<"a", "d", "d">>)
      THEN "create"
      ELSE IF follows(<<"d", "e", "l", "e", "t", "e">>)
              \/ follows(<<"r", "e", "m", "o", "v", "e">>)
      THEN "delete"
      ELSE "modify"

\* Every occurrence of the path in the text comes right after a backtick.
AlwaysQuoted(text, path) ==
  \A i \in DOMAIN text :
    startsWithAt(text, i, path) => (i > 1 /\ text[i - 1] = Backtick)

\* C27 as stated: the type is decided by the unquoted path after a keyword
\* and one blank, create/new/add before delete/remove, and a file whose
\* every occurrence in the section text comes right after a backtick is
\* classified 'modify'.
C27_QuotedIsModify ==
  extraction.parsed =>
    \A kn \in FileTasks :
      LET task    == ParsedPlan.phases[kn[1]].tasks[kn[2]]
          section == SectionText(kn[1])
      IN  /\ task.type = KeywordType(section, task.file)
          /\ AlwaysQuoted(section, task.file) => task.type = "modify"

\* C27, amended: as above, the occurrences of the path being taken in any
\* letter case.
C27_QuotedInAnyCaseIsModify ==
  extraction.parsed =>
    \A kn \in FileTasks :
      LET task    == ParsedPlan.phases[kn[1]].tasks[kn[2]]
          section == SectionText(kn[1])
      IN  /\ task.type = KeywordType(section, task.file)
          /\ AlwaysQuoted(toLowerCase(section), toLowerCase(task.file)) =>
               task.type = "modify"

\* A section that says Delete before the quoted path, and nothing else of
\* the path: the task is a modify task.
C27_Witness ==
  /\ extraction.parsed
  /\ \E kn \in FileTasks :
       LET task    == ParsedPlan.phases[kn[1]].tasks[kn[2]]
           section == SectionText(kn[1])
       IN  /\ includes(section, <<"D", "e", "l", "e", "t", "e", " ", Backtick>> \o task.file)
           /\ AlwaysQuoted(toLowerCase(section), toLowerCase(task.file))
           /\ task.type = "modify"

\* C28: when the file of a create or modify task exists and is read, the
\* match percentage is within 50..100, so the task never gets status
\* 'fail'; a modify task is 'partial' only for scores from 50 up to, not
\* including, 70; a task without changes scores at most 80.
C28_ScoreFromBase ==
  probe.scored =>
    LET verified == verifyTask(probe.task, TRUE, probe.content, FALSE)
    IN  /\ verified.matchPercentage = probe.score
        /\ verified.status = probe.status
        /\ probe.score >= 50 * Scale /\ probe.score <= 100 * Scale
        /\ probe.status \in {"pass", "partial"}
        /\ (probe.task.type = "modify" /\ probe.status = "partial") =>
              probe.score < 70 * Scale
        /\ probe.task.changes = <<>> => probe.score <= 80 * Scale

\* A modify task found partial, its score strictly between 50 and 70.
C28_Witness ==
  /\ probe.scored
  /\ probe.task.type = "modify"
  /\ probe.status = "partial"
  /\ probe.score > 50 * Scale
  /\ probe.score < 70 * Scale

\* Every selected task is a create, modify or delete task.
SupportedTypesOnly ==
  \A i \in DOMAIN tasksToVerify :
    SelectedTask(i).type \in {"create", "modify", "delete"}

\* C29: in a run whose selected tasks are all create, modify or delete
\* tasks, every failed task carries an issue of severity 'error'; so
\* overallStatus is 'fail' exactly when a task failed, and 'partial' only
\* when no task failed and some task is partial.
C29_FailCarriesError ==
  (result # <<>> /\ SupportedTypesOnly) =>
    LET results == result[1].taskResults
        failed  == { i \in DOMAIN results : results[i].status = "fail" }
        partial == { i \in DOMAIN results : results[i].status = "partial" }
    IN  /\ \A i \in failed :
             \E n \in DOMAIN results[i].issues :
               results[i].issues[n].severity = "error"
        /\ result[1].overallStatus = "fail" <=> failed # {}
        /\ result[1].overallStatus = "partial" => (failed = {} /\ partial # {})
        /\ ~(result[1].summary.tasksMissing > 0
               /\ result[1].overallStatus = "partial")

\* Four create, modify or delete tasks of which one failed, less than the
\* majority: the run is 'fail'.
C29_Witness ==
  /\ result # <<>>
  /\ SupportedTypesOnly
  /\ result[1].summary.totalTasks = 4
  /\ result[1].summary.tasksMissing = 1
  /\ result[1].overallStatus = "fail"

\* The positive closing remark, alone.
PositiveRemarkOnly ==
  << <<"Implementation looks good! Consider code review before merging">> >>

\* C30: the recommendations are the positive closing remark alone exactly
\* when overallStatus is 'pass'; a run that selects no task is 'pass' with
\* all counts 0 and that remark; phaseId is 'phase-<k>' for every non-zero
\* phase option k, whether or not the plan has such a phase.
C30_RemarkIffPass ==
  result # <<>> =>
    /\ result[1].recommendations = PositiveRemarkOnly
         <=> result[1].overallStatus = "pass"
    /\ tasksToVerify = <<>> =>
         /\ result[1].overallStatus = "pass"
         /\ result[1].summary =
              [totalTasks |-> 0, tasksCompleted |-> 0, tasksPartial |-> 0,
               tasksMissing |-> 0, criticalIssues |-> 0, warnings |-> 0]
         /\ result[1].recommendations = PositiveRemarkOnly
    /\ (options.phase.type = "number" /\ options.phase.num # 0) =>
         result[1].phaseId = <<"phase-", options.phase.num>>

\* A run for a phase the plan does not have: no task, 'pass', the phase id
\* set all the same.
C30_Witness ==
  /\ result # <<>>
  /\ options.phase = Number(MaxPhases + 1)
  /\ findPhase(plan, options) = 0
  /\ tasksToVerify = <<>>
  /\ result[1].overallStatus = "pass"
  /\ result[1].phaseId = <<"phase-", MaxPhases + 1>>

=============================================================================
